---- MODULE Spec2Model ----
(***************************************************************************)
(* Client-side orchestration layer of the admin console                    *)
(* (src/frontend/app.js): session gate, panel router, paginated search,    *)
(* watchlist selection, credential status mirror, user directory.          *)
(*                                                                         *)
(* The page is single-threaded: every event handler runs to its next       *)
(* await, and every network completion resumes exactly one suspended       *)
(* handler.  A suspended handler is a task in the bag `tasks`: the request *)
(* it awaits plus the continuation (`cont`) that runs once the awaited     *)
(* function returns.  Any task in flight may complete next.                *)
(***************************************************************************)
EXTENDS Integers, Sequences, FiniteSets, Bags, TLC

VARIABLES
  pc,      \* "boot" before the script's last lines (1049-1058) ran, then "run"
  state,   \* the module-level `state` object (lines 1-11)
  dom,     \* the document: status surfaces, tables, labels, controls
  tasks,   \* bag of suspended handlers, each awaiting one network response
  last,    \* history: the operation performed by the last step, the request
           \* it answered and the selection held before it
  budget   \* user gestures the model still follows (-1: any number)

vars == <<pc, state, dom, tasks, last, budget>>

-----------------------------------------------------------------------------
(* Bounds of the model *)

MaxInFlight == 2      \* requests in flight at once
MaxGestures == 3      \* user gestures followed, where that is capped

-----------------------------------------------------------------------------
(* JavaScript values *)

NoToken == "none"                       \* state.token === null
Token == "tok"                          \* payload.access_token of a login
Null == [t |-> "null", v |-> 0]         \* null as a watchlist id
Num(n) == [t |-> "num", v |-> n]        \* the number n
Str(n) == [t |-> "str", v |-> n]        \* the string spelling n
Truthy(id) == id.t # "null"
\* What the DOM stores when a value is assigned to option.value and what
\* event.target.value gives back: always a string.
ToDomString(id) == IF id.t = "null" THEN Str(0) ELSE Str(id.v)
EmptyString == Str(0)
\* event.target.value || null
OrNull(s) == IF s = EmptyString THEN Null ELSE s

LoginRequired == "Please login first to obtain an access token."

Panels == {"overview", "instruments", "watchlists", "kite", "users"}

NoStatus == [text |-> "", tone |-> "none"]
Surfaces == {"loginStatus", "dashboardStatus", "importStatus", "searchStatus",
             "kiteStatus", "watchlistStatus", "usersStatus"}

\* A credential status payload; absent fields are "" and a missing payload
\* (null/undefined) has present = FALSE.
KiteFact(configured, key, tok, till) ==
  [present |-> TRUE, configured |-> configured, api_key_last4 |-> key,
   access_token_last4 |-> tok, valid_till |-> till]
NoKite == [present |-> FALSE, configured |-> FALSE, api_key_last4 |-> "",
           access_token_last4 |-> "", valid_till |-> ""]

\* A dashboard summary payload.
NoDashboard == [present |-> FALSE, totals |-> 0, kite_status |-> NoKite,
                latest_import |-> ""]
Dashboard(totals, kite, imp) ==
  [present |-> TRUE, totals |-> totals, kite_status |-> kite, latest_import |-> imp]

-----------------------------------------------------------------------------
(* Requests and responses *)

\* A suspended handler: the request it issued (kind and arguments, the
\* Authorization header it carries) and what runs after the awaited function
\* returns.
Request(kind) ==
  [kind |-> kind, auth |-> NoToken, wid |-> Null, cursor |-> 0, q |-> "",
   item |-> 0, append |-> FALSE, silent |-> FALSE, preserve |-> FALSE,
   show |-> FALSE, cont |-> <<>>]

InFlight(w) == BagCardinality(w.tasks)
Issue(w, req) == [w EXCEPT !.tasks = @ (+) SetToBag({req})]
Settle(w, req) == [w EXCEPT !.tasks = @ (-) SetToBag({req})]

\* A response: ok is response.ok (a rejected fetch or unparsable body is a
\* failure too); the other fields are the parsed body.
NoDetail == "(no detail)"
FailureWith(detail) == [ok |-> FALSE, detail |-> detail]
Failure == FailureWith(NoDetail)

\* payload.detail ?? fallback, the message of the Error a handler throws.
ErrorMessage(resp, fallback) ==
  IF resp.detail = NoDetail THEN fallback ELSE resp.detail

-----------------------------------------------------------------------------
(* Status Reporter and Session Holder *)

SetStatus(w, element, message, tone) ==
  [w EXCEPT !.dom[element] =
     IF message = "" THEN NoStatus ELSE [text |-> message, tone |-> tone]]

\* A requireToken that never throws.
RequireTokenNever(w) == TRUE

\* TRUE when requireToken() returns, FALSE when it throws.
RequireToken(w) == w.state.token # NoToken

\* authenticatedFetch: ok = FALSE when requireToken threw (nothing is sent),
\* otherwise the request leaves with the bearer header.
AuthenticatedFetch(w, req) ==
  IF ~RequireToken(w)
    THEN [ok |-> FALSE, w |-> w]
    ELSE [ok |-> TRUE, w |-> Issue(w, [req EXCEPT !.auth = w.state.token])]

-----------------------------------------------------------------------------
(* Credential status description *)

\* Stand-ins for the characters of lines 88, 91 and 96 that a TLA+ string
\* cannot hold: the middle dot U+00B7 and three bullets U+2022.
MiddleDot == "."
Bullets == "***"

\* new Date(value).toLocaleString() of the expiry instants the API sends.
ToLocaleString(value) ==
  CASE value = "2030-01-01T00:00:00Z" -> "1/1/2030, 12:00:00 AM"
    [] OTHER -> "Invalid Date"

\* A description that lists the token before the key.
DescribeKiteStatusTokenFirst(p) ==
  IF ~p.present \/ ~p.configured
    THEN "No Kite credentials stored."
    ELSE LET parts ==
               <<"Kite credentials active">>
               \o (IF p.access_token_last4 # ""
                     THEN <<"Token " \o Bullets \o p.access_token_last4>> ELSE <<>>)
               \o (IF p.api_key_last4 # ""
                     THEN <<"API key " \o Bullets \o p.api_key_last4>> ELSE <<>>)
               \o (IF p.valid_till # ""
                     THEN <<"valid till " \o ToLocaleString(p.valid_till)>> ELSE <<>>)
             join[i \in 1..Len(parts)] ==
               IF i = 1 THEN parts[1]
               ELSE join[i - 1] \o " " \o MiddleDot \o " " \o parts[i]
         IN join[Len(parts)]

\* A description that forgets the configured flag when a key is held.
DescribeKiteStatusByKey(p) ==
  IF ~p.present \/ (~p.configured /\ p.api_key_last4 = "")
    THEN "No Kite credentials stored."
    ELSE "Kite credentials active"

DescribeKiteStatus(p) ==
  IF ~p.present \/ ~p.configured
    THEN "No Kite credentials stored."
    ELSE LET parts ==
               <<"Kite credentials active">>
               \o (IF p.api_key_last4 # ""
                     THEN <<"API key " \o Bullets \o p.api_key_last4>> ELSE <<>>)
               \o (IF p.access_token_last4 # ""
                     THEN <<"Token " \o Bullets \o p.access_token_last4>> ELSE <<>>)
               \o (IF p.valid_till # ""
                     THEN <<"valid till " \o ToLocaleString(p.valid_till)>> ELSE <<>>)
             join[i \in 1..Len(parts)] ==
               IF i = 1 THEN parts[1]
               ELSE join[i - 1] \o " " \o MiddleDot \o " " \o parts[i]
         IN join[Len(parts)]

KiteTone(p) == IF p.configured THEN "success" ELSE "info"

-----------------------------------------------------------------------------
(* Controllers.  Each operator is one function of app.js, taking the page  *)
(* (`w`: state, dom, tasks) to the page at its next suspension: a request  *)
(* issued, or the function returned and the caller's continuation resumed. *)

RECURSIVE Resume(_, _)

\* renderDashboard: the dashboard's credential label (totals and the import
\* card are pure markup of the payload held in state.dashboard).
RenderDashboard(w, payload) ==
  IF ~payload.present
    THEN [w EXCEPT !.dom.dashboardKite =
            [text |-> "Login to view credential status.", tone |-> "none",
             muted |-> TRUE]]
    ELSE IF payload.kite_status.present
      THEN [w EXCEPT !.dom.dashboardKite =
              [text |-> DescribeKiteStatus(payload.kite_status),
               tone |-> KiteTone(payload.kite_status), muted |-> FALSE]]
      ELSE w

LoadDashboard(w, showToast, cont) ==
  IF w.state.token = NoToken
    THEN Resume(RenderDashboard(w, NoDashboard), cont)
    ELSE LET w1 == SetStatus(w, "dashboardStatus", "Loading dashboard...", "info")
             r == AuthenticatedFetch(w1,
                    [Request("dashboard") EXCEPT !.show = showToast, !.cont = cont])
         IN IF r.ok THEN r.w
            ELSE Resume(SetStatus(w1, "dashboardStatus", LoginRequired, "error"), cont)

OnDashboard(w, req, resp) ==
  IF resp.ok
    THEN LET w1 == [w EXCEPT !.state.dashboard = resp.payload]
             w2 == RenderDashboard(w1, resp.payload)
             w3 == [w2 EXCEPT !.state.kiteStatus = resp.payload.kite_status]
         IN Resume(IF req.show
                     THEN SetStatus(w3, "dashboardStatus", "Dashboard updated.", "success")
                     ELSE SetStatus(w3, "dashboardStatus", "", "info"),
                   req.cont)
    ELSE Resume(SetStatus(w, "dashboardStatus",
              ErrorMessage(resp, "Unable to load dashboard"), "error"),
                req.cont)

RefreshImports(w, cont) ==
  IF w.state.token = NoToken
    THEN Resume(w, cont)
    ELSE LET r == AuthenticatedFetch(w, [Request("imports") EXCEPT !.cont = cont])
         IN IF r.ok THEN r.w
            ELSE Resume(SetStatus(w, "importStatus", LoginRequired, "error"), cont)

OnImports(w, req, resp) ==
  IF resp.ok
    THEN Resume([w EXCEPT !.dom.imports = resp.payload], req.cont)
    ELSE Resume(SetStatus(w, "importStatus",
              ErrorMessage(resp, "Unable to fetch imports"), "error"),
                req.cont)

RefreshKiteStatus(w, showMessage, cont) ==
  IF w.state.token = NoToken
    THEN Resume(w, cont)
    ELSE LET r == AuthenticatedFetch(w,
                    [Request("kiteStatus") EXCEPT !.show = showMessage, !.cont = cont])
         IN IF r.ok THEN r.w
            ELSE Resume(SetStatus(w, "kiteStatus", LoginRequired, "error"), cont)

\* Both display surfaces of the credential status fact.
PublishKite(w, payload, viaStatus) ==
  LET message == DescribeKiteStatus(payload)
      tone == KiteTone(payload)
      w1 == IF viaStatus
              THEN SetStatus(w, "kiteStatus", message, tone)
              ELSE [w EXCEPT !.dom.kiteStatus = [text |-> message, tone |-> tone]]
  IN [w1 EXCEPT !.dom.dashboardKite =
        [text |-> message, tone |-> tone, muted |-> FALSE]]

OnKiteStatus(w, req, resp) ==
  IF resp.ok
    THEN Resume(PublishKite([w EXCEPT !.state.kiteStatus = resp.payload],
                            resp.payload, req.show),
                req.cont)
    ELSE Resume(SetStatus(w, "kiteStatus",
              ErrorMessage(resp, "Unable to fetch Kite status"), "error"),
                req.cont)

LoadUsers(w, cont) ==
  IF w.state.token = NoToken
    THEN Resume(w, cont)
    ELSE LET w1 == SetStatus(w, "usersStatus", "Loading users...", "info")
             r == AuthenticatedFetch(w1, [Request("users") EXCEPT !.cont = cont])
         IN IF r.ok THEN r.w
            ELSE Resume(SetStatus(w1, "usersStatus", LoginRequired, "error"), cont)

OnUsers(w, req, resp) ==
  IF resp.ok
    THEN Resume(SetStatus([w EXCEPT !.state.users = resp.payload], "usersStatus",
                          "Loaded " \o ToString(Len(resp.payload)) \o " user(s).",
                          "success"),
                req.cont)
    ELSE Resume(SetStatus(w, "usersStatus",
              ErrorMessage(resp, "Unable to load users"), "error"), req.cont)

-----------------------------------------------------------------------------
(* Watchlist Selection Manager *)

SyncAddButtonsState(w) ==
  [w EXCEPT !.dom.addDisabled = ~Truthy(w.state.selectedWatchlistId)]

\* Strict equality of the stored selection with a watchlist's id.
IsMember(id, watchlists) == \E i \in 1..Len(watchlists) : watchlists[i] = id

FirstId(watchlists) == IF Len(watchlists) = 0 THEN Null ELSE watchlists[1]

RenderWatchlistOptions(w) ==
  IF Len(w.state.watchlists) = 0
    THEN SyncAddButtonsState(
           [w EXCEPT !.dom.options = <<>>, !.dom.selectValue = EmptyString,
                     !.dom.selectDisabled = TRUE])
    ELSE LET lists == w.state.watchlists
             sel == w.state.selectedWatchlistId
             shown == IF IsMember(sel, lists) THEN ToDomString(sel)
                      ELSE ToDomString(lists[1])
             w1 == [w EXCEPT
                      !.dom.options = [i \in 1..Len(lists) |-> ToDomString(lists[i])],
                      !.dom.selectValue = shown,
                      !.dom.selectDisabled = FALSE]
             w2 == IF ~Truthy(sel)
                     THEN [w1 EXCEPT !.state.selectedWatchlistId = lists[1],
                                     !.dom.selectValue = ToDomString(lists[1])]
                     ELSE w1
         IN SyncAddButtonsState(w2)

FetchWatchlistItems(w, watchlistId, silent, cont) ==
  IF ~Truthy(watchlistId)
    THEN Resume(w, cont)
    ELSE IF ~RequireToken(w)
      THEN Resume(SetStatus(w, "watchlistStatus", LoginRequired, "error"), cont)
      ELSE LET w1 == IF silent THEN w
                     ELSE SetStatus(w, "watchlistStatus", "Loading watchlist...", "info")
               r == AuthenticatedFetch(w1,
                      [Request("items") EXCEPT !.wid = watchlistId, !.silent = silent,
                                               !.cont = cont])
           IN IF r.ok THEN r.w
              ELSE Resume(SetStatus(w1, "watchlistStatus", LoginRequired, "error"), cont)

\* An items fetch that reports an empty watchlist as a failure and keeps
\* the rows it had.
OnItemsEmptyIsError(w, req, resp) ==
  IF resp.ok /\ Len(resp.items) # 0
    THEN LET count == Len(resp.items)
             w1 == [w EXCEPT
                      !.dom.items = resp.items,
                      !.dom.watchlistMeta =
                        "Loaded " \o ToString(count) \o " instrument(s)."]
             w2 == SetStatus(w1, "watchlistStatus",
                             "Loaded " \o ToString(count) \o " items.", "success")
         IN Resume(w2, req.cont)
    ELSE Resume(SetStatus(w, "watchlistStatus", "Unable to load watchlist", "error"),
                req.cont)

OnItems(w, req, resp) ==
  IF resp.ok
    THEN LET count == Len(resp.items)
             w1 == [w EXCEPT
                      !.dom.items = resp.items,
                      !.dom.watchlistMeta =
                        IF count # 0 THEN "Loaded " \o ToString(count) \o " instrument(s)."
                        ELSE "This watchlist is empty."]
             w2 == IF count # 0
                     THEN SetStatus(w1, "watchlistStatus",
                                    "Loaded " \o ToString(count) \o " items.", "success")
                     ELSE SetStatus(w1, "watchlistStatus",
                                    "No instruments in watchlist yet.", "info")
             w3 == IF resp.kite_status.present
                     THEN PublishKite([w2 EXCEPT !.state.kiteStatus = resp.kite_status],
                                      resp.kite_status, FALSE)
                     ELSE w2
         IN Resume(w3, req.cont)
    ELSE Resume(SetStatus(w, "watchlistStatus",
              ErrorMessage(resp, "Unable to load watchlist"), "error"),
                req.cont)

LoadWatchlists(w, preserveSelection, cont) ==
  IF w.state.token = NoToken
    THEN Resume(w, cont)
    ELSE LET r == AuthenticatedFetch(w,
                    [Request("watchlists") EXCEPT !.preserve = preserveSelection,
                                                  !.cont = cont])
         IN IF r.ok THEN r.w
            ELSE Resume(SetStatus(w, "watchlistStatus", LoginRequired, "error"), cont)

\* A reload that resets the selection only when it was asked not to keep it.
ReselectKeepsDangling(preserveSelection, selected, watchlists) ==
  IF ~preserveSelection THEN FirstId(watchlists) ELSE selected

\* Lines 518-521: the selection after the fetched collection is stored.
Reselect(preserveSelection, selected, watchlists) ==
  IF ~preserveSelection \/ ~IsMember(selected, watchlists)
    THEN FirstId(watchlists)
    ELSE selected

OnWatchlists(w, req, resp) ==
  IF resp.ok
    THEN LET w1 == [w EXCEPT
                      !.state.watchlists = resp.payload,
                      !.state.selectedWatchlistId =
                        Reselect(req.preserve, @, resp.payload)]
             w2 == RenderWatchlistOptions(w1)
         IN IF Truthy(w2.state.selectedWatchlistId)
              THEN FetchWatchlistItems(w2, w2.state.selectedWatchlistId, TRUE, req.cont)
              ELSE Resume([w2 EXCEPT !.dom.items = <<>>, !.dom.watchlistMeta = ""],
                          req.cont)
    ELSE Resume(SetStatus(w, "watchlistStatus",
              ErrorMessage(resp, "Unable to fetch watchlists"), "error"),
                req.cont)

HandleAddToWatchlist(w, instrumentId) ==
  IF ~Truthy(w.state.selectedWatchlistId)
    THEN SetStatus(w, "watchlistStatus", "Select or create a watchlist first.", "error")
    ELSE IF ~RequireToken(w)
      THEN SetStatus(w, "watchlistStatus", LoginRequired, "error")
      ELSE LET w1 == SetStatus(w, "watchlistStatus", "Adding instrument...", "info")
               r == AuthenticatedFetch(w1,
                      [Request("add") EXCEPT !.wid = w.state.selectedWatchlistId,
                                             !.item = instrumentId])
           IN IF r.ok THEN r.w
              ELSE SetStatus(w1, "watchlistStatus", LoginRequired, "error")

\* An addition whose failure is reported nowhere.
OnAddFailingSilently(w, req, resp) ==
  IF resp.ok
    THEN FetchWatchlistItems(
           SetStatus(w, "watchlistStatus", "Instrument added to watchlist.", "success"),
           w.state.selectedWatchlistId, TRUE, <<"void loadDashboard">>)
    ELSE w

\* An addition that reports success and reloads nothing.
OnAddNoReload(w, req, resp) ==
  IF resp.ok
    THEN SetStatus(w, "watchlistStatus", "Instrument added to watchlist.", "success")
    ELSE SetStatus(w, "watchlistStatus",
              ErrorMessage(resp, "Unable to add instrument"), "error")

OnAdd(w, req, resp) ==
  IF resp.ok
    THEN FetchWatchlistItems(
           SetStatus(w, "watchlistStatus", "Instrument added to watchlist.", "success"),
           w.state.selectedWatchlistId, TRUE, <<"void loadDashboard">>)
    ELSE SetStatus(w, "watchlistStatus",
              ErrorMessage(resp, "Unable to add instrument"), "error")

HandleRemoveWatchlistItem(w, itemId) ==
  IF ~Truthy(w.state.selectedWatchlistId)
    THEN w
    ELSE IF ~RequireToken(w)
      THEN SetStatus(w, "watchlistStatus", LoginRequired, "error")
      ELSE LET w1 == SetStatus(w, "watchlistStatus", "Removing instrument...", "info")
               r == AuthenticatedFetch(w1,
                      [Request("remove") EXCEPT !.wid = w.state.selectedWatchlistId,
                                                !.item = itemId])
           IN IF r.ok THEN r.w
              ELSE SetStatus(w1, "watchlistStatus", LoginRequired, "error")

OnRemove(w, req, resp) ==
  IF resp.ok
    THEN FetchWatchlistItems(
           SetStatus(w, "watchlistStatus", "Instrument removed.", "success"),
           w.state.selectedWatchlistId, TRUE, <<"void loadDashboard">>)
    ELSE SetStatus(w, "watchlistStatus",
              ErrorMessage(resp, "Unable to remove instrument"), "error")

-----------------------------------------------------------------------------
(* Paginated Search Controller *)

\* A table that is emptied before every render.
RenderInstrumentsReplacing(w, items, append) ==
  SyncAddButtonsState([w EXCEPT !.dom.rows = items])

RenderInstruments(w, items, append) ==
  SyncAddButtonsState(
    [w EXCEPT !.dom.rows = IF append THEN @ \o items ELSE items])

ExecuteSearch(w, append, cursor, cont) ==
  IF ~RequireToken(w)
    THEN Resume(SetStatus(w, "searchStatus", LoginRequired, "error"), cont)
    ELSE LET w1 == SetStatus(w, "searchStatus",
                             IF append THEN "Loading more..." ELSE "Searching...",
                             "info")
             r == AuthenticatedFetch(w1,
                    [Request("search") EXCEPT !.q = w.state.lastSearchParams,
                                              !.cursor = cursor, !.append = append,
                                              !.cont = cont])
         IN IF r.ok THEN r.w
            ELSE Resume(SetStatus(w1, "searchStatus", LoginRequired, "error"), cont)

\* A search that drops the response to any request but the latest submitted.
OnSearchLatestOnly(w, req, resp) ==
  IF resp.ok /\ req.q = w.state.lastSearchParams
    THEN LET w1 == RenderInstruments(w, resp.items, req.append)
             w2 == [w1 EXCEPT !.state.nextCursor = resp.next_cursor,
                              !.dom.loadMoreDisabled = (resp.next_cursor = 0)]
         IN Resume(w2, req.cont)
    ELSE Resume(w, req.cont)

\* A search whose failure empties the table and forgets the cursor.
OnSearchResetting(w, req, resp) ==
  IF resp.ok
    THEN LET w1 == RenderInstruments(w, resp.items, req.append)
             w2 == [w1 EXCEPT !.state.nextCursor = resp.next_cursor,
                              !.dom.loadMoreDisabled = (resp.next_cursor = 0)]
         IN Resume(IF Len(resp.items) # 0
                     THEN SetStatus(w2, "searchStatus",
                            "Retrieved " \o ToString(Len(resp.items)) \o " instruments.",
                            "success")
                     ELSE SetStatus(w2, "searchStatus", "No instruments found.", "info"),
                   req.cont)
    ELSE Resume(SetStatus([w EXCEPT !.dom.rows = <<>>, !.state.nextCursor = 0],
                          "searchStatus", ErrorMessage(resp, "Search failed"), "error"),
                req.cont)

OnSearch(w, req, resp) ==
  IF resp.ok
    THEN LET w1 == RenderInstruments(w, resp.items, req.append)
             w2 == [w1 EXCEPT !.state.nextCursor = resp.next_cursor,
                              !.dom.loadMoreDisabled = (resp.next_cursor = 0)]
         IN Resume(IF Len(resp.items) # 0
                     THEN SetStatus(w2, "searchStatus",
                            "Retrieved " \o ToString(Len(resp.items)) \o " instruments.",
                            "success")
                     ELSE SetStatus(w2, "searchStatus", "No instruments found.", "info"),
                   req.cont)
    ELSE Resume(SetStatus(w, "searchStatus",
              ErrorMessage(resp, "Search failed"), "error"), req.cont)

\* A load-more that asks for a page whatever the stored cursor.
LoadMoreAlways(w) == ExecuteSearch(w, TRUE, w.state.nextCursor, <<>>)

\* loadMoreButton click.
LoadMore(w) ==
  IF w.state.nextCursor = 0 THEN w
  ELSE ExecuteSearch(w, TRUE, w.state.nextCursor, <<>>)

\* clearDbButton; confirmed is the answer to window.confirm.
ClearDb(w, confirmed) ==
  IF w.state.token = NoToken
    THEN SetStatus(w, "searchStatus", "Please login first.", "error")
    ELSE IF ~confirmed THEN w
    ELSE LET w1 == SetStatus(w, "searchStatus", "Deleting instrument database...", "info")
             r == AuthenticatedFetch(w1, Request("clearDb"))
         IN IF r.ok THEN r.w
            ELSE SetStatus(w1, "searchStatus", LoginRequired, "error")

\* A delete-all that clears the page whatever the API answered.
OnClearDbEager(w, req, resp) ==
  LET w1 == [w EXCEPT !.dom.rows = <<>>, !.state.nextCursor = 0,
                      !.dom.loadMoreDisabled = TRUE]
  IN IF resp.ok
       THEN LoadDashboard(SetStatus(w1, "searchStatus", "Deleted instruments.",
                                    "success"),
                          FALSE, <<>>)
       ELSE SetStatus(w1, "searchStatus",
                 ErrorMessage(resp, "Failed to delete instruments"), "error")

OnClearDb(w, req, resp) ==
  IF resp.ok
    THEN LoadDashboard(
           SetStatus([w EXCEPT !.dom.rows = <<>>, !.state.nextCursor = 0,
                               !.dom.loadMoreDisabled = TRUE],
                     "searchStatus", "Deleted instruments.", "success"),
           FALSE, <<>>)
    ELSE SetStatus(w, "searchStatus",
              ErrorMessage(resp, "Failed to delete instruments"), "error")

-----------------------------------------------------------------------------
(* Catalog import *)

ImportSubmit(w, fileChosen) ==
  IF ~RequireToken(w)
    THEN SetStatus(w, "importStatus", LoginRequired, "error")
    ELSE IF ~fileChosen
      THEN SetStatus(w, "importStatus", "Please choose a CSV file.", "error")
      ELSE LET w1 == SetStatus(w, "importStatus", "Uploading file...", "info")
               r == AuthenticatedFetch(w1, Request("import"))
           IN IF r.ok THEN r.w
              ELSE SetStatus(w1, "importStatus", LoginRequired, "error")

\* An import handler that stops after refreshing the import history.
OnImportNoDashboard(w, req, resp) ==
  IF resp.ok
    THEN RefreshImports(SetStatus(w, "importStatus", "Import completed.", "success"),
                        <<>>)
    ELSE SetStatus(w, "importStatus",
              ErrorMessage(resp, "Import failed"), "error")

OnImport(w, req, resp) ==
  IF resp.ok
    THEN RefreshImports(SetStatus(w, "importStatus", "Import completed.", "success"),
                        <<"void loadDashboard">>)
    ELSE SetStatus(w, "importStatus",
              ErrorMessage(resp, "Import failed"), "error")

-----------------------------------------------------------------------------
(* Credential settings: save, test, clear *)

KiteAction(w, kind, progress) ==
  IF ~RequireToken(w)
    THEN SetStatus(w, "kiteStatus", LoginRequired, "error")
    ELSE LET w1 == SetStatus(w, "kiteStatus", progress, "info")
             r == AuthenticatedFetch(w1, Request(kind))
         IN IF r.ok THEN r.w
            ELSE SetStatus(w1, "kiteStatus", LoginRequired, "error")

\* A save that reports success and refreshes nothing.
OnKiteSaveNoRefresh(w, req, resp) ==
  IF resp.ok
    THEN SetStatus(w, "kiteStatus", "Kite credentials updated.", "success")
    ELSE SetStatus(w, "kiteStatus",
              ErrorMessage(resp, "Unable to save credentials"), "error")

OnKiteSave(w, req, resp) ==
  IF resp.ok
    THEN RefreshKiteStatus(
           SetStatus(w, "kiteStatus", "Kite credentials updated.", "success"),
           FALSE, <<"void loadDashboard">>)
    ELSE SetStatus(w, "kiteStatus",
              ErrorMessage(resp, "Unable to save credentials"), "error")

OnKiteTest(w, req, resp) ==
  IF resp.ok
    THEN SetStatus(w, "kiteStatus", "Kite connectivity OK.", "success")
    ELSE SetStatus(w, "kiteStatus",
              ErrorMessage(resp, "Kite test failed"), "error")

OnKiteClear(w, req, resp) ==
  IF resp.ok
    THEN RefreshKiteStatus(
           SetStatus(w, "kiteStatus", "Kite credentials cleared.", "success"),
           FALSE, <<"void loadDashboard">>)
    ELSE SetStatus(w, "kiteStatus",
              ErrorMessage(resp, "Unable to clear credentials"), "error")

-----------------------------------------------------------------------------
(* Create-watchlist form and combo box *)

\* String.prototype.trim on the names the form submits.
Trim(s) == IF s \in {" ", "  "} THEN "" ELSE s

CreateWatchlist(w, raw) ==
  IF ~RequireToken(w)
    THEN SetStatus(w, "watchlistStatus", LoginRequired, "error")
    ELSE IF Trim(raw) = ""
      THEN SetStatus(w, "watchlistStatus", "Watchlist name is required.", "error")
      ELSE LET w1 == SetStatus(w, "watchlistStatus", "Creating watchlist...", "info")
               r == AuthenticatedFetch(w1, Request("create"))
           IN IF r.ok THEN r.w
              ELSE SetStatus(w1, "watchlistStatus", LoginRequired, "error")

OnCreate(w, req, resp) ==
  IF resp.ok
    THEN LoadWatchlists(
           [SetStatus(w, "watchlistStatus", "Watchlist created.", "success")
              EXCEPT !.state.selectedWatchlistId = resp.id],
           TRUE, <<"void loadDashboard">>)
    ELSE SetStatus(w, "watchlistStatus",
              ErrorMessage(resp, "Unable to create watchlist"), "error")

WatchlistSelectChange(w, value) ==
  LET w1 == SyncAddButtonsState(
              [w EXCEPT !.state.selectedWatchlistId = OrNull(value),
                        !.dom.selectValue = value])
  IN IF Truthy(w1.state.selectedWatchlistId)
       THEN FetchWatchlistItems(w1, w1.state.selectedWatchlistId, FALSE, <<>>)
       ELSE [w1 EXCEPT !.dom.items = <<>>, !.dom.watchlistMeta = ""]

-----------------------------------------------------------------------------
(* User Directory Controller *)

\* A save-roles branch that sends whatever set of roles is ticked.
SaveRolesUnchecked(w, roles) ==
  IF ~RequireToken(w)
    THEN SetStatus(w, "usersStatus", LoginRequired, "error")
    ELSE LET w1 == SetStatus(w, "usersStatus", "Updating roles...", "info")
             r == AuthenticatedFetch(w1, Request("roles"))
         IN IF r.ok THEN r.w
            ELSE SetStatus(w1, "usersStatus", LoginRequired, "error")

\* updateUserRoles, called by the save-roles branch of the table's handler.
SaveRoles(w, roles) ==
  IF ~RequireToken(w)
    THEN SetStatus(w, "usersStatus", LoginRequired, "error")
    ELSE LET w1 == SetStatus(w, "usersStatus", "Updating roles...", "info")
         IN IF roles = {}
              THEN SetStatus(w1, "usersStatus", "Select at least one role.", "error")
              ELSE LET r == AuthenticatedFetch(w1, Request("roles"))
                   IN IF r.ok THEN r.w
                      ELSE SetStatus(w1, "usersStatus", LoginRequired, "error")

\* A save-roles branch that does not reload the directory.
OnRolesNoReload(w, req, resp) ==
  IF resp.ok
    THEN SetStatus(w, "usersStatus", "Roles updated.", "success")
    ELSE SetStatus(w, "usersStatus",
              ErrorMessage(resp, "Unable to update roles"), "error")

OnRoles(w, req, resp) ==
  IF resp.ok
    THEN LoadUsers(SetStatus(w, "usersStatus", "Roles updated.", "success"), <<>>)
    ELSE SetStatus(w, "usersStatus",
              ErrorMessage(resp, "Unable to update roles"), "error")

SetApproval(w, approved) ==
  IF ~RequireToken(w)
    THEN SetStatus(w, "usersStatus", LoginRequired, "error")
    ELSE LET w1 == SetStatus(w, "usersStatus",
                             IF approved THEN "Approving user..."
                             ELSE "Revoking approval...", "info")
             r == AuthenticatedFetch(w1, Request("approve"))
         IN IF r.ok THEN r.w
            ELSE SetStatus(w1, "usersStatus", LoginRequired, "error")

OnApprove(w, req, resp) ==
  IF resp.ok
    THEN LoadUsers(SetStatus(w, "usersStatus", "User status updated.", "success"),
                   <<"void loadDashboard">>)
    ELSE SetStatus(w, "usersStatus",
              ErrorMessage(resp, "Unable to update approval"), "error")

-----------------------------------------------------------------------------
(* Login, and the continuation of an awaited call *)

LoginSubmit(w) ==
  Issue(SetStatus(w, "loginStatus", "Logging in...", "info"), Request("login"))

\* A login handler whose failure signs the user out.
OnLoginClearing(w, req, resp) ==
  IF resp.ok
    THEN LoadDashboard(
           SetStatus([w EXCEPT !.state.token = resp.access_token], "loginStatus",
                     "Login successful. Token stored in memory.", "success"),
           FALSE,
           <<"refreshImports", "refreshKiteStatus", "loadWatchlists", "loadUsers">>)
    ELSE SetStatus([w EXCEPT !.state.token = NoToken], "loginStatus",
                   ErrorMessage(resp, "Login failed"), "error")

OnLogin(w, req, resp) ==
  IF resp.ok
    THEN LoadDashboard(
           SetStatus([w EXCEPT !.state.token = resp.access_token], "loginStatus",
                     "Login successful. Token stored in memory.", "success"),
           FALSE,
           <<"refreshImports", "refreshKiteStatus", "loadWatchlists", "loadUsers">>)
    ELSE SetStatus(w, "loginStatus",
              ErrorMessage(resp, "Login failed"), "error")

\* The statements that follow an `await f(...)` once f has returned; each
\* element of cont names the next call of the suspended handler.
Resume(w, cont) ==
  IF cont = <<>> THEN w
  ELSE LET rest == Tail(cont)
       IN CASE Head(cont) = "refreshImports" -> RefreshImports(w, rest)
            [] Head(cont) = "refreshKiteStatus" -> RefreshKiteStatus(w, FALSE, rest)
            [] Head(cont) = "loadWatchlists" -> LoadWatchlists(w, FALSE, rest)
            [] Head(cont) = "loadUsers" -> LoadUsers(w, rest)
            [] Head(cont) = "void loadDashboard" ->
                 Resume(LoadDashboard(w, FALSE, <<>>), rest)

-----------------------------------------------------------------------------
(* Panel Router *)

\* A router that starts the panel's loads whether or not a token is held.
SetActivePanelEager(w, panelId) ==
  IF panelId = "" THEN w
  ELSE LET w1 == [w EXCEPT !.state.activePanel = panelId,
                           !.dom.activePanels = {p \in Panels : p = panelId}]
       IN CASE panelId = "overview" -> LoadDashboard(w1, FALSE, <<>>)
            [] panelId = "instruments" ->
                 RefreshImports(
                   IF Len(w1.dom.rows) = 0
                     THEN ExecuteSearch(w1, FALSE, 0, <<>>) ELSE w1,
                   <<>>)
            [] panelId = "watchlists" -> LoadWatchlists(w1, TRUE, <<>>)
            [] panelId = "kite" -> RefreshKiteStatus(w1, FALSE, <<>>)
            [] panelId = "users" -> LoadUsers(w1, <<>>)
            [] OTHER -> w1

\* A router whose catalog panel searches on every entry.
SetActivePanelSearching(w, panelId) ==
  IF panelId = "instruments" /\ w.state.token # NoToken
    THEN LET w1 == [w EXCEPT !.state.activePanel = panelId,
                             !.dom.activePanels = {p \in Panels : p = panelId}]
         IN RefreshImports(ExecuteSearch(w1, FALSE, 0, <<>>), <<>>)
    ELSE SetActivePanelEager(w, panelId)

\* A router that leaves an already active panel alone.
SetActivePanelOnce(w, panelId) ==
  IF panelId = w.state.activePanel /\ panelId \in w.dom.activePanels
    THEN w
    ELSE SetActivePanelEager(w, panelId)

\* A router that marks the target panel without unmarking the others.
SetActivePanelAdding(w, panelId) ==
  IF panelId = "" THEN w
  ELSE [w EXCEPT !.state.activePanel = panelId,
                 !.dom.activePanels = @ \cup {p \in Panels : p = panelId}]

SetActivePanel(w, panelId) ==
  IF panelId = "" THEN w
  ELSE LET w1 == [w EXCEPT !.state.activePanel = panelId,
                           !.dom.activePanels = {p \in Panels : p = panelId}]
       IN IF w1.state.token = NoToken THEN w1
          ELSE CASE panelId = "overview" -> LoadDashboard(w1, FALSE, <<>>)
                 [] panelId = "instruments" ->
                      RefreshImports(
                        IF Len(w1.dom.rows) = 0
                          THEN ExecuteSearch(w1, FALSE, 0, <<>>) ELSE w1,
                        <<>>)
                 [] panelId = "watchlists" -> LoadWatchlists(w1, TRUE, <<>>)
                 [] panelId = "kite" -> RefreshKiteStatus(w1, FALSE, <<>>)
                 [] panelId = "users" -> LoadUsers(w1, <<>>)
                 [] OTHER -> w1

\* document 'visibilitychange' with the page visible.
VisibilityChange(w) ==
  IF w.state.token = NoToken THEN w
  ELSE LET w1 == IF ~w.state.dashboard.present
                   THEN LoadDashboard(w, FALSE, <<>>) ELSE w
           w2 == IF Len(w1.dom.rows) = 0
                   THEN ExecuteSearch(w1, FALSE, 0, <<>>) ELSE w1
       IN IF Truthy(w2.state.selectedWatchlistId) /\ Len(w2.dom.items) = 0
            THEN FetchWatchlistItems(w2, w2.state.selectedWatchlistId, TRUE, <<>>)
            ELSE w2

\* Lines 1049-1058: the script's last statements.
Initialise(w) ==
  LET w1 == SetActivePanel(w, w.state.activePanel)
  IN IF w1.state.token = NoToken THEN w1
     ELSE LoadUsers(
            LoadWatchlists(
              RefreshKiteStatus(
                RefreshImports(LoadDashboard(w1, FALSE, <<>>), <<>>),
                FALSE, <<>>),
              TRUE, <<>>),
            <<>>)

-----------------------------------------------------------------------------
(* The remote API, as far as the page depends on it.  A server profile     *)
(* names the bodies the API may answer with and the requests it may fail.  *)

\* Result sets of the paginated search: Catalog[q][k] is page k of query q.
\* The cursor returned with page k is k; the last page returns no cursor.
Catalog ==
  [q \in {"{}", "a", "b"} |->
     CASE q = "a" -> << <<1, 2>>, <<3, 4>>, <<5>> >>
       [] q = "b" -> << <<6>> >>
       [] OTHER -> << <<8, 9>> >>]

SearchPage(q, cursor) ==
  LET pages == Catalog[q]
      k == cursor + 1
  IN IF k <= Len(pages)
       THEN [ok |-> TRUE, items |-> pages[k],
             next_cursor |-> IF k < Len(pages) THEN k ELSE 0]
       ELSE [ok |-> TRUE, items |-> <<>>, next_cursor |-> 0]

\* The items of watchlist wid held by the API: their ids tell the watchlist.
ItemsOf(wid) == {<<>>, <<10 * wid.v + 1>>}

\* The detail fields of the API's error bodies: none, unless the server
\* profile lists them.
Details(srv) == IF "details" \in DOMAIN srv THEN srv.details ELSE {NoDetail}

Failures(srv, kind) ==
  IF kind \in srv.failing THEN {FailureWith(d) : d \in Details(srv)} ELSE {}

Responses(srv, req) ==
  Failures(srv, req.kind) \cup
  CASE req.kind = "login" -> {[ok |-> TRUE, access_token |-> Token]}
    [] req.kind = "dashboard" ->
         {[ok |-> TRUE, payload |-> p] :
            p \in (IF "recounted" \in DOMAIN srv /\ req.cont = <<>> /\ ~req.show
                     THEN srv.recounted ELSE srv.dashboards)}
    [] req.kind = "imports" -> {[ok |-> TRUE, payload |-> p] : p \in srv.imports}
    [] req.kind = "kiteStatus" -> {[ok |-> TRUE, payload |-> p] : p \in srv.kite}
    [] req.kind = "users" -> {[ok |-> TRUE, payload |-> p] : p \in srv.users}
    [] req.kind = "watchlists" -> {[ok |-> TRUE, payload |-> p] : p \in srv.watchlists}
    [] req.kind = "items" ->
         {[ok |-> TRUE, items |-> i, kite_status |-> k] :
            i \in (IF "refetched" \in DOMAIN srv /\ req.cont = <<"void loadDashboard">>
                     THEN srv.refetched
                   ELSE IF srv.items = {} THEN ItemsOf(req.wid) ELSE srv.items),
            k \in srv.itemsKite}
    [] req.kind = "search" -> {SearchPage(req.q, req.cursor)}
    [] req.kind = "create" -> {[ok |-> TRUE, id |-> i] : i \in srv.created}
    [] OTHER -> {[ok |-> TRUE]}

-----------------------------------------------------------------------------
(* State machine *)

W == [state |-> state, dom |-> dom, tasks |-> tasks]

Boot ==
  /\ pc = "boot"
  /\ state = [token |-> NoToken, nextCursor |-> 0, lastSearchParams |-> "{}",
              watchlists |-> <<>>, selectedWatchlistId |-> Null,
              kiteStatus |-> NoKite, activePanel |-> "overview",
              dashboard |-> NoDashboard, users |-> <<>>]
  /\ \E enabled \in BOOLEAN :
       dom = [activePanels |-> {},
              loginStatus |-> NoStatus, dashboardStatus |-> NoStatus,
              importStatus |-> NoStatus, searchStatus |-> NoStatus,
              kiteStatus |-> NoStatus, watchlistStatus |-> NoStatus,
              usersStatus |-> NoStatus,
              dashboardKite |-> [text |-> "", tone |-> "none", muted |-> TRUE],
              imports |-> <<>>, rows |-> <<>>, loadMoreDisabled |-> ~enabled,
              addDisabled |-> TRUE, options |-> <<>>, selectValue |-> EmptyString,
              selectDisabled |-> FALSE, items |-> <<>>, watchlistMeta |-> ""]
  /\ tasks = EmptyBag
  /\ last = [op |-> "none", ok |-> TRUE, req |-> Request("none"), sel |-> Null]

\* One step of the page: it becomes w; op names the handler that ran.
Step(w, op, ok, req) ==
  /\ InFlight(w) <= MaxInFlight
  /\ state' = w.state
  /\ dom' = w.dom
  /\ tasks' = w.tasks
  /\ last' = [op |-> op, ok |-> ok, req |-> req,
              sel |-> state.selectedWatchlistId]
  /\ pc' = "run"

Gesture(w, op) ==
  /\ pc = "run"
  /\ budget # 0
  /\ budget' = IF budget > 0 THEN budget - 1 ELSE budget
  /\ Step(w, op, TRUE, Request("none"))

Startup ==
  /\ pc = "boot"
  /\ UNCHANGED budget
  /\ Step(Initialise(W), "initialise", TRUE, Request("none"))

(* User gestures *)
ClickPanel(targets) == \E p \in targets : Gesture(SetActivePanel(W, p), "setActivePanel")
SubmitLogin == Gesture(LoginSubmit(W), "login")
SubmitSearch(queries) ==
  \E q \in queries :
    Gesture(ExecuteSearch([W EXCEPT !.state.lastSearchParams = q], FALSE, 0, <<>>),
            "search")
ClickLoadMore == ~dom.loadMoreDisabled /\ Gesture(LoadMore(W), "loadMore")
ClickClearDb(answers) ==
  \E confirmed \in answers : Gesture(ClearDb(W, confirmed), "clearDb")
SubmitImport == \E chosen \in BOOLEAN : Gesture(ImportSubmit(W, chosen), "import")
ClickRefreshImports == Gesture(RefreshImports(W, <<>>), "refreshImports")
ClickDashboardRefresh ==
  Gesture(LoadDashboard(W, TRUE, <<"refreshKiteStatus">>), "dashboardRefresh")
SubmitKite == Gesture(KiteAction(W, "kiteSave", "Saving Kite credentials..."), "kiteSave")
ClickKiteTest ==
  Gesture(KiteAction(W, "kiteTest", "Testing Kite connectivity..."), "kiteTest")
ClickKiteClear ==
  Gesture(KiteAction(W, "kiteClear", "Clearing Kite credentials..."), "kiteClear")
SubmitCreateWatchlist(names) ==
  \E name \in names : Gesture(CreateWatchlist(W, name), "createWatchlist")
ChangeWatchlistSelect ==
  /\ ~dom.selectDisabled
  /\ \E i \in 1..Len(dom.options) :
       /\ dom.options[i] # dom.selectValue
       /\ Gesture(WatchlistSelectChange(W, dom.options[i]), "selectWatchlist")
ClickRefreshWatchlists == Gesture(LoadWatchlists(W, TRUE, <<>>), "refreshWatchlists")
ClickRefreshWatchlistItems ==
  /\ ~dom.selectDisabled
  /\ Gesture(FetchWatchlistItems(W, state.selectedWatchlistId, FALSE, <<>>),
             "refreshWatchlistItems")
ClickAdd ==
  /\ ~dom.addDisabled
  /\ \E i \in 1..Len(dom.rows) :
       Gesture(HandleAddToWatchlist(W, dom.rows[i]), "addToWatchlist")
ClickRemove ==
  \E i \in 1..Len(dom.items) :
    Gesture(HandleRemoveWatchlistItem(W, dom.items[i]), "removeWatchlistItem")
RefreshUsers == Gesture(LoadUsers(W, <<>>), "loadUsers")
ClickSaveRoles ==
  /\ Len(state.users) > 0
  /\ \E roles \in SUBSET {"client", "admin"} : Gesture(SaveRoles(W, roles), "saveRoles")
ClickApprove ==
  /\ Len(state.users) > 0
  /\ \E approved \in BOOLEAN : Gesture(SetApproval(W, approved), "setApproval")
Visible == Gesture(VisibilityChange(W), "visibilitychange")


(* Network completions: the response to one request in flight arrives and  *)
(* the handler suspended on it runs to its next suspension.                *)
\* The part of a handler that runs when its awaited response arrives.
Continue(w, req, resp) ==
  CASE req.kind = "login" -> OnLogin(w, req, resp)
    [] req.kind = "dashboard" -> OnDashboard(w, req, resp)
    [] req.kind = "imports" -> OnImports(w, req, resp)
    [] req.kind = "kiteStatus" -> OnKiteStatus(w, req, resp)
    [] req.kind = "users" -> OnUsers(w, req, resp)
    [] req.kind = "watchlists" -> OnWatchlists(w, req, resp)
    [] req.kind = "items" -> OnItems(w, req, resp)
    [] req.kind = "search" -> OnSearch(w, req, resp)
    [] req.kind = "clearDb" -> OnClearDb(w, req, resp)
    [] req.kind = "import" -> OnImport(w, req, resp)
    [] req.kind = "kiteSave" -> OnKiteSave(w, req, resp)
    [] req.kind = "kiteTest" -> OnKiteTest(w, req, resp)
    [] req.kind = "kiteClear" -> OnKiteClear(w, req, resp)
    [] req.kind = "create" -> OnCreate(w, req, resp)
    [] req.kind = "add" -> OnAdd(w, req, resp)
    [] req.kind = "remove" -> OnRemove(w, req, resp)
    [] req.kind = "roles" -> OnRoles(w, req, resp)
    [] req.kind = "approve" -> OnApprove(w, req, resp)

Deliver(srv, kind, op) ==
  /\ pc = "run"
  /\ UNCHANGED budget
  /\ \E req \in BagToSet(tasks) :
       /\ req.kind = kind
       /\ \E resp \in Responses(srv, req) :
            Step(Continue(Settle(W, req), req, resp), op, resp.ok, req)

LoginResponse(srv) == Deliver(srv, "login", "onLogin")
DashboardResponse(srv) == Deliver(srv, "dashboard", "onDashboard")
ImportsResponse(srv) == Deliver(srv, "imports", "onImports")
KiteStatusResponse(srv) == Deliver(srv, "kiteStatus", "onKiteStatus")
UsersResponse(srv) == Deliver(srv, "users", "onUsers")
WatchlistsResponse(srv) == Deliver(srv, "watchlists", "onWatchlists")
ItemsResponse(srv) == Deliver(srv, "items", "onItems")
SearchResponse(srv) == Deliver(srv, "search", "onSearch")
ClearDbResponse(srv) == Deliver(srv, "clearDb", "onClearDb")
ImportResponse(srv) == Deliver(srv, "import", "onImport")
KiteSaveResponse(srv) == Deliver(srv, "kiteSave", "onKiteSave")
KiteTestResponse(srv) == Deliver(srv, "kiteTest", "onKiteTest")
KiteClearResponse(srv) == Deliver(srv, "kiteClear", "onKiteClear")
CreateResponse(srv) == Deliver(srv, "create", "onCreate")
AddResponse(srv) == Deliver(srv, "add", "onAdd")
RemoveResponse(srv) == Deliver(srv, "remove", "onRemove")
RolesResponse(srv) == Deliver(srv, "roles", "onRoles")
ApproveResponse(srv) == Deliver(srv, "approve", "onApprove")

Kinds == {"login", "dashboard", "imports", "kiteStatus", "users", "watchlists",
          "items", "search", "clearDb", "import", "kiteSave", "kiteTest",
          "kiteClear", "create", "add", "remove", "roles", "approve"}

\* The whole console against an API with one body per endpoint, whose login
\* may be refused.
BasicServer ==
  [failing |-> {"login"},
   dashboards |-> {Dashboard(1, KiteFact(TRUE, "abcd", "", ""), "")},
   imports |-> {<<1>>},
   kite |-> {KiteFact(TRUE, "abcd", "", "")},
   users |-> {<<1>>},
   watchlists |-> {<<Str(1), Str(2)>>},
   items |-> {<<1>>},
   itemsKite |-> {NoKite},
   created |-> {Str(1)}]

Init == Boot /\ budget = MaxGestures

Next ==
  \/ Startup
  \/ ClickPanel(Panels)
  \/ SubmitLogin
  \/ SubmitSearch({"a"})
  \/ ClickLoadMore
  \/ ClickClearDb({TRUE})
  \/ SubmitImport
  \/ ClickRefreshImports
  \/ ClickDashboardRefresh
  \/ SubmitKite
  \/ ClickKiteTest
  \/ ClickKiteClear
  \/ SubmitCreateWatchlist({"", " ", "Tech"})
  \/ ChangeWatchlistSelect
  \/ ClickRefreshWatchlists
  \/ ClickRefreshWatchlistItems
  \/ ClickAdd
  \/ ClickRemove
  \/ RefreshUsers
  \/ ClickSaveRoles
  \/ ClickApprove
  \/ Visible
  \/ LoginResponse(BasicServer)
  \/ DashboardResponse(BasicServer)
  \/ ImportsResponse(BasicServer)
  \/ KiteStatusResponse(BasicServer)
  \/ UsersResponse(BasicServer)
  \/ WatchlistsResponse(BasicServer)
  \/ ItemsResponse(BasicServer)
  \/ SearchResponse(BasicServer)
  \/ ClearDbResponse(BasicServer)
  \/ ImportResponse(BasicServer)
  \/ KiteSaveResponse(BasicServer)
  \/ KiteTestResponse(BasicServer)
  \/ KiteClearResponse(BasicServer)
  \/ CreateResponse(BasicServer)
  \/ AddResponse(BasicServer)
  \/ RemoveResponse(BasicServer)
  \/ RolesResponse(BasicServer)
  \/ ApproveResponse(BasicServer)

Spec == Init /\ [][Next]_vars


-----------------------------------------------------------------------------
(* The search controller on its own: every other endpoint answers with one *)
(* body and never fails, searches and the delete-all may fail, and any     *)
(* number of gestures is followed.  The user signs in again only once the  *)
(* previous sign-in has run to its end.                                    *)

SearchServer ==
  [failing |-> {"search", "clearDb"},
   dashboards |-> {Dashboard(1, NoKite, "")},
   imports |-> {<<>>},
   kite |-> {KiteFact(FALSE, "", "", "")},
   users |-> {<<>>},
   watchlists |-> {<<>>},
   items |-> {},
   itemsKite |-> {NoKite},
   created |-> {}]

\* Requests of a login handler that has not yet run to its end.
LoginsInFlight ==
  Cardinality({t \in BagToSet(tasks) : t.kind = "login" \/ Len(t.cont) > 1})

SubmitLoginIdle == LoginsInFlight = 0 /\ SubmitLogin

InitFocus == Boot /\ budget = -1

NextSearch ==
  \/ Startup
  \/ SubmitLoginIdle
  \/ SubmitSearch({"a", "b"})
  \/ ClickLoadMore
  \/ ClickClearDb(BOOLEAN)
  \/ LoginResponse(SearchServer)
  \/ DashboardResponse(SearchServer)
  \/ ImportsResponse(SearchServer)
  \/ KiteStatusResponse(SearchServer)
  \/ UsersResponse(SearchServer)
  \/ WatchlistsResponse(SearchServer)
  \/ SearchResponse(SearchServer)
  \/ ClearDbResponse(SearchServer)

SpecSearch == InitFocus /\ [][NextSearch]_vars

-----------------------------------------------------------------------------
(* The watchlist manager on its own.  The API's watchlist ids are all of   *)
(* one JSON type: strings (SpecWatch) or numbers (SpecWatchNum).  The user *)
(* signs in again only once the previous sign-in has run to its end, and   *)
(* the page starts with its load-more button enabled.                      *)

\* Id(n): the id the API gives watchlist n, a value of JSON type idType.
WatchServer(idType) ==
  LET Id(n) == [t |-> idType, v |-> n] IN
  [failing |-> {"watchlists", "create"},
   dashboards |-> {Dashboard(1, NoKite, "")},
   imports |-> {<<>>},
   kite |-> {KiteFact(FALSE, "", "", "")},
   users |-> {<<>>},
   watchlists |-> {<<>>, <<Id(1)>>, <<Id(1), Id(2)>>},
   items |-> {},
   itemsKite |-> {NoKite},
   created |-> {Id(2)}]

InitWatch == InitFocus /\ ~dom.loadMoreDisabled

NextWatch(srv) ==
  \/ Startup
  \/ SubmitLoginIdle
  \/ SubmitCreateWatchlist({"", " ", "Tech"})
  \/ ChangeWatchlistSelect
  \/ ClickRefreshWatchlists
  \/ ClickRefreshWatchlistItems
  \/ LoginResponse(srv)
  \/ DashboardResponse(srv)
  \/ ImportsResponse(srv)
  \/ KiteStatusResponse(srv)
  \/ UsersResponse(srv)
  \/ WatchlistsResponse(srv)
  \/ ItemsResponse(srv)
  \/ CreateResponse(srv)

SpecWatch == InitWatch /\ [][NextWatch(WatchServer("str"))]_vars
SpecWatchNum == InitWatch /\ [][NextWatch(WatchServer("num"))]_vars

-----------------------------------------------------------------------------
(* Adding and removing watchlist items: the API holds one or no watchlist  *)
(* and may refuse an addition, a removal or an items fetch.                *)

ItemsServer ==
  [failing |-> {"items", "add", "remove"},
   dashboards |-> {Dashboard(1, NoKite, "")},
   imports |-> {<<>>},
   kite |-> {KiteFact(FALSE, "", "", "")},
   users |-> {<<>>},
   watchlists |-> {<<>>, <<Str(1)>>},
   items |-> {},
   itemsKite |-> {NoKite},
   created |-> {}]

NextItems ==
  \/ Startup
  \/ SubmitLoginIdle
  \/ SubmitSearch({"b"})
  \/ ClickRefreshWatchlists
  \/ ClickAdd
  \/ ClickRemove
  \/ LoginResponse(ItemsServer)
  \/ DashboardResponse(ItemsServer)
  \/ ImportsResponse(ItemsServer)
  \/ KiteStatusResponse(ItemsServer)
  \/ UsersResponse(ItemsServer)
  \/ WatchlistsResponse(ItemsServer)
  \/ ItemsResponse(ItemsServer)
  \/ SearchResponse(ItemsServer)
  \/ AddResponse(ItemsServer)
  \/ RemoveResponse(ItemsServer)

SpecItems == InitWatch /\ [][NextItems]_vars

-----------------------------------------------------------------------------
(* The credential status mirror on its own: the API holds no credentials   *)
(* or a key ending "abcd", its dashboard summary may omit kite_status, and *)
(* a credential action or status fetch may fail.                           *)

KiteServer ==
  [failing |-> {"kiteStatus", "kiteSave", "kiteTest", "kiteClear"},
   dashboards |-> {Dashboard(1, NoKite, ""),
                   Dashboard(1, KiteFact(TRUE, "abcd", "", ""), "")},
   imports |-> {<<>>},
   kite |-> {KiteFact(FALSE, "", "", ""), KiteFact(TRUE, "abcd", "", "")},
   users |-> {<<>>},
   watchlists |-> {<<>>},
   items |-> {},
   itemsKite |-> {NoKite},
   created |-> {}]

NextKite ==
  \/ Startup
  \/ SubmitLoginIdle
  \/ SubmitKite
  \/ ClickKiteTest
  \/ ClickKiteClear
  \/ LoginResponse(KiteServer)
  \/ DashboardResponse(KiteServer)
  \/ ImportsResponse(KiteServer)
  \/ KiteStatusResponse(KiteServer)
  \/ UsersResponse(KiteServer)
  \/ WatchlistsResponse(KiteServer)
  \/ KiteSaveResponse(KiteServer)
  \/ KiteTestResponse(KiteServer)
  \/ KiteClearResponse(KiteServer)

SpecKite == InitWatch /\ [][NextKite]_vars

-----------------------------------------------------------------------------
(* The description of the credential status: the status endpoint answers   *)
(* with any combination of the fact's fields and never fails.              *)

KiteFacts ==
  {KiteFact(configured, key, tok, till) :
     configured \in BOOLEAN, key \in {"", "abcd"}, tok \in {"", "wxyz"},
     till \in {"", "2030-01-01T00:00:00Z"}}

DescribeServer ==
  [failing |-> {},
   dashboards |-> {Dashboard(1, NoKite, "")},
   imports |-> {<<>>},
   kite |-> KiteFacts,
   users |-> {<<>>},
   watchlists |-> {<<>>},
   items |-> {},
   itemsKite |-> {NoKite},
   created |-> {}]

NextDescribe ==
  \/ Startup
  \/ SubmitLoginIdle
  \/ ClickPanel({"kite"})
  \/ LoginResponse(DescribeServer)
  \/ DashboardResponse(DescribeServer)
  \/ ImportsResponse(DescribeServer)
  \/ KiteStatusResponse(DescribeServer)
  \/ UsersResponse(DescribeServer)
  \/ WatchlistsResponse(DescribeServer)

SpecDescribe == InitWatch /\ [][NextDescribe]_vars

-----------------------------------------------------------------------------
(* The user directory, the catalog import and the create-watchlist form.   *)
(* The directory holds one or two users, the PUTs and the import may fail, *)
(* only blank watchlist names are submitted, and the user signs in again   *)
(* only once the previous sign-in has run to its end.                      *)

AdminServer ==
  [failing |-> {"roles", "approve", "import"},
   dashboards |-> {Dashboard(1, NoKite, ""), Dashboard(2, NoKite, "success")},
   imports |-> {<<>>},
   kite |-> {KiteFact(FALSE, "", "", "")},
   users |-> {<<1>>, <<1, 2>>},
   watchlists |-> {<<>>},
   items |-> {},
   itemsKite |-> {NoKite},
   created |-> {}]

NextAdmin ==
  \/ Startup
  \/ SubmitLoginIdle
  \/ SubmitImport
  \/ SubmitCreateWatchlist({"", " "})
  \/ ClickSaveRoles
  \/ ClickApprove
  \/ LoginResponse(AdminServer)
  \/ DashboardResponse(AdminServer)
  \/ ImportsResponse(AdminServer)
  \/ KiteStatusResponse(AdminServer)
  \/ UsersResponse(AdminServer)
  \/ WatchlistsResponse(AdminServer)
  \/ ImportResponse(AdminServer)
  \/ RolesResponse(AdminServer)
  \/ ApproveResponse(AdminServer)

SpecAdmin == InitWatch /\ [][NextAdmin]_vars

-----------------------------------------------------------------------------
(* The panel router on its own: every navigation button is pressed, one    *)
(* with an empty target among them, logged out and logged in, and the      *)
(* loads a panel starts are answered without failures.                     *)

PanelServer ==
  [failing |-> {},
   dashboards |-> {Dashboard(1, NoKite, "")},
   imports |-> {<<>>},
   kite |-> {KiteFact(FALSE, "", "", "")},
   users |-> {<<1>>},
   watchlists |-> {<<Str(1)>>},
   items |-> {},
   itemsKite |-> {NoKite},
   created |-> {}]

NextPanel ==
  \/ Startup
  \/ SubmitLoginIdle
  \/ ClickPanel(Panels \cup {""})
  \/ LoginResponse(PanelServer)
  \/ DashboardResponse(PanelServer)
  \/ ImportsResponse(PanelServer)
  \/ KiteStatusResponse(PanelServer)
  \/ UsersResponse(PanelServer)
  \/ WatchlistsResponse(PanelServer)
  \/ ItemsResponse(PanelServer)
  \/ SearchResponse(PanelServer)

SpecPanel == InitWatch /\ [][NextPanel]_vars

-----------------------------------------------------------------------------
(* Failing requests.  The search, the import-history refresh, the directory *)
(* load and the two per-user PUTs may be refused, with an error body whose  *)
(* detail field is missing, a message, or the empty string.                 *)

FailServer ==
  [failing |-> {"imports", "users", "search", "roles", "approve"},
   details |-> {NoDetail, "Not allowed", ""},
   dashboards |-> {Dashboard(1, NoKite, "")},
   imports |-> {<<>>},
   kite |-> {KiteFact(FALSE, "", "", "")},
   users |-> {<<1>>},
   watchlists |-> {<<>>},
   items |-> {},
   itemsKite |-> {NoKite},
   created |-> {}]

NextFail ==
  \/ Startup
  \/ SubmitLoginIdle
  \/ SubmitSearch({"b"})
  \/ ClickRefreshImports
  \/ ClickSaveRoles
  \/ ClickApprove
  \/ LoginResponse(FailServer)
  \/ DashboardResponse(FailServer)
  \/ ImportsResponse(FailServer)
  \/ KiteStatusResponse(FailServer)
  \/ UsersResponse(FailServer)
  \/ WatchlistsResponse(FailServer)
  \/ SearchResponse(FailServer)
  \/ RolesResponse(FailServer)
  \/ ApproveResponse(FailServer)

SpecFail == InitWatch /\ [][NextFail]_vars

-----------------------------------------------------------------------------
(* The session.  The user signs in at any time, also while an earlier      *)
(* sign-in is still loading; a sign-in may be refused.                     *)

LoginServer ==
  [failing |-> {"login"},
   dashboards |-> {Dashboard(1, NoKite, "")},
   imports |-> {<<>>},
   kite |-> {KiteFact(FALSE, "", "", "")},
   users |-> {<<1>>},
   watchlists |-> {<<Str(1)>>},
   items |-> {},
   itemsKite |-> {NoKite},
   created |-> {}]

NextLogin ==
  \/ Startup
  \/ SubmitLogin
  \/ ClickPanel({"users"})
  \/ LoginResponse(LoginServer)
  \/ DashboardResponse(LoginServer)
  \/ ImportsResponse(LoginServer)
  \/ KiteStatusResponse(LoginServer)
  \/ UsersResponse(LoginServer)
  \/ WatchlistsResponse(LoginServer)
  \/ ItemsResponse(LoginServer)

SpecLogin == InitWatch /\ [][NextLogin]_vars

-----------------------------------------------------------------------------
(* Clearing the instruments while a search is unanswered.  The user sends  *)
(* no search and loads no further page while a delete is unanswered, so a  *)
(* search answered after the delete was sent before it.                    *)

NextClear ==
  \/ Startup
  \/ SubmitLoginIdle
  \/ (\A t \in BagToSet(tasks) : t.kind # "clearDb") /\ SubmitSearch({"a", "b"})
  \/ (\A t \in BagToSet(tasks) : t.kind # "clearDb") /\ ClickLoadMore
  \/ ClickClearDb(BOOLEAN)
  \/ LoginResponse(SearchServer)
  \/ DashboardResponse(SearchServer)
  \/ ImportsResponse(SearchServer)
  \/ KiteStatusResponse(SearchServer)
  \/ UsersResponse(SearchServer)
  \/ WatchlistsResponse(SearchServer)
  \/ SearchResponse(SearchServer)
  \/ ClearDbResponse(SearchServer)

SpecClear == InitFocus /\ [][NextClear]_vars

-----------------------------------------------------------------------------
(* Overlapping dashboard loads.  The API counts one instrument until the   *)
(* delete-all empties it and refuses nothing.  The user signs in once and  *)
(* makes MaxGestures gestures: the dashboard load of the sign-in is sent   *)
(* before any delete and may be served before or after it, while the load  *)
(* a successful delete sends is served after it and counts no instrument.  *)

TotalsServer ==
  [failing |-> {},
   dashboards |-> {Dashboard(1, NoKite, ""), Dashboard(0, NoKite, "")},
   recounted |-> {Dashboard(0, NoKite, "")},
   imports |-> {<<>>},
   kite |-> {KiteFact(FALSE, "", "", "")},
   users |-> {<<>>},
   watchlists |-> {<<>>},
   items |-> {},
   itemsKite |-> {NoKite},
   created |-> {}]

NextTotals ==
  \/ Startup
  \/ state.token = NoToken /\ SubmitLoginIdle
  \/ ClickClearDb({TRUE})
  \/ LoginResponse(TotalsServer)
  \/ DashboardResponse(TotalsServer)
  \/ ImportsResponse(TotalsServer)
  \/ KiteStatusResponse(TotalsServer)
  \/ UsersResponse(TotalsServer)
  \/ WatchlistsResponse(TotalsServer)
  \/ ClearDbResponse(TotalsServer)

SpecTotals == Init /\ [][NextTotals]_vars

-----------------------------------------------------------------------------
(* Changing the selection while an addition or a removal is unanswered.    *)
(* The API holds two watchlists and refuses nothing.                       *)

RetargetServer ==
  [failing |-> {},
   dashboards |-> {Dashboard(1, NoKite, "")},
   imports |-> {<<>>},
   kite |-> {KiteFact(FALSE, "", "", "")},
   users |-> {<<>>},
   watchlists |-> {<<Str(1), Str(2)>>},
   items |-> {},
   itemsKite |-> {NoKite},
   created |-> {}]

NextRetarget ==
  \/ Startup
  \/ SubmitLoginIdle
  \/ SubmitSearch({"b"})
  \/ ChangeWatchlistSelect
  \/ ClickAdd
  \/ ClickRemove
  \/ LoginResponse(RetargetServer)
  \/ DashboardResponse(RetargetServer)
  \/ ImportsResponse(RetargetServer)
  \/ KiteStatusResponse(RetargetServer)
  \/ UsersResponse(RetargetServer)
  \/ WatchlistsResponse(RetargetServer)
  \/ ItemsResponse(RetargetServer)
  \/ SearchResponse(RetargetServer)
  \/ AddResponse(RetargetServer)
  \/ RemoveResponse(RetargetServer)

SpecRetarget == InitWatch /\ [][NextRetarget]_vars

-----------------------------------------------------------------------------
(* An outage.  The API may refuse every load whose response the page       *)
(* caches: the dashboard, the credential status, the directory, the        *)
(* watchlists, a search page and the creation of a watchlist.              *)

OutageServer ==
  [failing |-> {"dashboard", "kiteStatus", "users", "watchlists", "search", "create"},
   dashboards |-> {Dashboard(1, KiteFact(TRUE, "abcd", "", ""), "")},
   imports |-> {<<>>},
   kite |-> {KiteFact(TRUE, "abcd", "", "")},
   users |-> {<<1>>},
   watchlists |-> {<<Str(1)>>},
   items |-> {},
   itemsKite |-> {NoKite},
   created |-> {Str(2)}]

NextOutage ==
  \/ Startup
  \/ SubmitLoginIdle
  \/ SubmitSearch({"a"})
  \/ ClickLoadMore
  \/ SubmitCreateWatchlist({"Tech"})
  \/ LoginResponse(OutageServer)
  \/ DashboardResponse(OutageServer)
  \/ ImportsResponse(OutageServer)
  \/ KiteStatusResponse(OutageServer)
  \/ UsersResponse(OutageServer)
  \/ WatchlistsResponse(OutageServer)
  \/ ItemsResponse(OutageServer)
  \/ SearchResponse(OutageServer)
  \/ CreateResponse(OutageServer)

SpecOutage == Init /\ [][NextOutage]_vars

-----------------------------------------------------------------------------
(* Termination.  The operations that announce themselves with a progress   *)
(* message, against an API that may refuse each of them.  The user makes   *)
(* MaxGestures gestures.  fetch() settles every request it sent, with a    *)
(* response or a rejection, and the event loop then runs the handler       *)
(* suspended on it: while a request is in flight, one is answered.         *)

LiveServer ==
  [failing |-> {"search", "dashboard", "users", "add", "remove", "kiteSave"},
   dashboards |-> {Dashboard(1, NoKite, "")},
   imports |-> {<<>>},
   kite |-> {KiteFact(FALSE, "", "", "")},
   users |-> {<<1>>},
   watchlists |-> {<<Str(1)>>},
   items |-> {},
   itemsKite |-> {NoKite},
   created |-> {}]

NextLive ==
  \/ Startup
  \/ SubmitLoginIdle
  \/ SubmitSearch({"a"})
  \/ ClickLoadMore
  \/ ClickDashboardRefresh
  \/ RefreshUsers
  \/ ClickAdd
  \/ ClickRemove
  \/ SubmitKite
  \/ LoginResponse(LiveServer)
  \/ DashboardResponse(LiveServer)
  \/ ImportsResponse(LiveServer)
  \/ KiteStatusResponse(LiveServer)
  \/ UsersResponse(LiveServer)
  \/ WatchlistsResponse(LiveServer)
  \/ ItemsResponse(LiveServer)
  \/ SearchResponse(LiveServer)
  \/ KiteSaveResponse(LiveServer)
  \/ AddResponse(LiveServer)
  \/ RemoveResponse(LiveServer)

SpecLive ==
  /\ Init
  /\ [][NextLive]_vars
  /\ WF_vars(\/ Startup
             \/ LoginResponse(LiveServer)
             \/ DashboardResponse(LiveServer)
             \/ ImportsResponse(LiveServer)
             \/ KiteStatusResponse(LiveServer)
             \/ UsersResponse(LiveServer)
             \/ WatchlistsResponse(LiveServer)
             \/ ItemsResponse(LiveServer)
             \/ SearchResponse(LiveServer)
             \/ KiteSaveResponse(LiveServer)
             \/ AddResponse(LiveServer)
             \/ RemoveResponse(LiveServer))

-----------------------------------------------------------------------------
(* A removal racing a manual refresh.  The API holds one watchlist with at *)
(* most one instrument and refuses nothing.  The user makes MaxGestures    *)
(* gestures, and refreshes the items only while a DELETE is unanswered: a  *)
(* fetch sent before the DELETE is answered may be served before or after  *)
(* the deletion, while the re-fetch the removal sends once the DELETE is   *)
(* answered is served after it and sees the watchlist without the item.    *)

RemoveServer ==
  [failing |-> {},
   dashboards |-> {Dashboard(1, NoKite, "")},
   imports |-> {<<>>},
   kite |-> {KiteFact(FALSE, "", "", "")},
   users |-> {<<>>},
   watchlists |-> {<<Str(1)>>},
   items |-> {},
   refetched |-> {<<>>},
   itemsKite |-> {NoKite},
   created |-> {}]

NextRemove ==
  \/ Startup
  \/ SubmitLoginIdle
  \/ ClickRemove
  \/ (\E t \in BagToSet(tasks) : t.kind = "remove") /\ ClickRefreshWatchlistItems
  \/ LoginResponse(RemoveServer)
  \/ DashboardResponse(RemoveServer)
  \/ ImportsResponse(RemoveServer)
  \/ KiteStatusResponse(RemoveServer)
  \/ UsersResponse(RemoveServer)
  \/ WatchlistsResponse(RemoveServer)
  \/ ItemsResponse(RemoveServer)
  \/ RemoveResponse(RemoveServer)

SpecRemove == Init /\ [][NextRemove]_vars

-----------------------------------------------------------------------------
(* Properties *)

\* C1: while no token is held no request other than a login is in flight,
\* and every request other than a login carries the bearer token: a gated
\* operation invoked without a token sends nothing.
NoRequestWithoutToken ==
  \A t \in BagToSet(tasks) :
    t.kind # "login" => state.token # NoToken /\ t.auth = state.token

\* C1's case: a search was submitted with no token held; it reported the
\* login-required condition and nothing is in flight.
GatedSearchRefused ==
  /\ last.op = "search"
  /\ state.token = NoToken
  /\ dom.searchStatus = [text |-> LoginRequired, tone |-> "error"]
  /\ tasks = EmptyBag

\* C2: a panel activation with no token held (the startup activation of the
\* default panel included) puts no request in flight and changes nothing but
\* the active panel: the state's activePanel and the panels' active class.
UnauthenticatedActivationOnlyToggles ==
  [][(last'.op \in {"setActivePanel", "initialise"} /\ state.token = NoToken)
       => /\ tasks' = tasks
          /\ state' = [state EXCEPT !.activePanel = state'.activePanel]
          /\ dom' = [dom EXCEPT !.activePanels = {state'.activePanel}]]_vars

\* C2's case: the instruments panel was activated with no token held; it is
\* shown, nothing was searched and nothing is in flight.
InstrumentsShownLoggedOut ==
  /\ last.op = "setActivePanel"
  /\ state.token = NoToken
  /\ state.activePanel = "instruments"
  /\ dom.activePanels = {"instruments"}
  /\ dom.searchStatus = NoStatus
  /\ tasks = EmptyBag

\* C3: the selection is null or the id of a member of state.watchlists.
SelectionIsMember ==
  Truthy(state.selectedWatchlistId)
    => IsMember(state.selectedWatchlistId, state.watchlists)

\* C4: after a successful loadWatchlists that was asked not to preserve the
\* selection, or that found the previous selection absent from the fetched
\* collection, the selection is the id of the collection's first element,
\* or null when the collection is empty.
ReloadResetsSelection ==
  (/\ last.op = "onWatchlists"
   /\ last.ok
   /\ ~last.req.preserve \/ ~IsMember(last.sel, state.watchlists))
    => state.selectedWatchlistId = FirstId(state.watchlists)

\* C4's case: a preserving reload found the selected watchlist "2" gone and
\* reset the selection to the first watchlist fetched.
DanglingSelectionReset ==
  /\ last.op = "onWatchlists"
  /\ last.ok
  /\ last.req.preserve
  /\ last.sel = Str(2)
  /\ state.watchlists = <<Str(1)>>
  /\ state.selectedWatchlistId = Str(1)

\* C5: a successful loadWatchlists({preserveSelection: true}) leaves the
\* selection on the same watchlist whenever that watchlist is among those
\* fetched (a watchlist being told by the spelling of its id, which is what
\* the combo box holds).
PreserveKeepsSelection ==
  (/\ last.op = "onWatchlists"
   /\ last.ok
   /\ last.req.preserve
   /\ Truthy(last.sel)
   /\ \E i \in 1..Len(state.watchlists) :
        ToDomString(state.watchlists[i]) = ToDomString(last.sel))
    => /\ Truthy(state.selectedWatchlistId)
       /\ ToDomString(state.selectedWatchlistId) = ToDomString(last.sel)

\* C6: a successful fresh search leaves the rows equal to the response's
\* items, a successful load-more leaves them equal to the previous rows
\* followed by the response's items, and a load-more asks for the page at the
\* stored cursor of the stored query: a search and two load-mores over three
\* pages give page 1, page 2, page 3 in order.
RowsFollowPages ==
  [][/\ (last'.op = "onSearch" /\ last'.ok)
          => dom'.rows =
               (IF last'.req.append THEN dom.rows ELSE <<>>)
                 \o SearchPage(last'.req.q, last'.req.cursor).items
     /\ (last'.op = "loadMore" /\ state.nextCursor # 0)
          => tasks' = tasks (+) SetToBag({
               [Request("search") EXCEPT !.auth = state.token,
                                         !.q = state.lastSearchParams,
                                         !.cursor = state.nextCursor,
                                         !.append = TRUE]})]_vars

\* C6's case: the last of the three pages of query "a" arrived after a search
\* and two load-mores.
ThreePagesInOrder ==
  /\ last.op = "onSearch"
  /\ last.ok
  /\ last.req.append
  /\ last.req.q = "a"
  /\ last.req.cursor = 2
  /\ dom.rows = Catalog["a"][1] \o Catalog["a"][2] \o Catalog["a"][3]
  /\ dom.rows = <<1, 2, 3, 4, 5>>
  /\ state.nextCursor = 0

\* C7: a load-more clicked while the stored cursor is null puts no request
\* in flight and leaves the rows, the cursor and the stored query (the whole
\* state and document) as they were.
LoadMoreWithoutCursorIsNoOp ==
  [][(last'.op = "loadMore" /\ state.nextCursor = 0)
       => tasks' = tasks /\ state' = state /\ dom' = dom]_vars

\* C7's case: load-more was clicked with no cursor stored.
LoadMoreClickedWithoutCursor ==
  /\ last.op = "loadMore"
  /\ state.nextCursor = 0
  /\ ~dom.loadMoreDisabled
  /\ tasks = EmptyBag

\* C8: the response to a search request is applied when it arrives, whatever
\* else is in flight: the other requests stay in flight and a successful
\* response's cursor becomes the stored cursor.
ResponsesAppliedOnArrival ==
  [][last'.op = "onSearch"
       => /\ tasks' = tasks (-) SetToBag({last'.req})
          /\ last'.ok
               => /\ state'.nextCursor =
                       SearchPage(last'.req.q, last'.req.cursor).next_cursor
                  /\ dom'.loadMoreDisabled = (state'.nextCursor = 0)]_vars

\* C8's case: the search for "a" was answered after the search for "b" that
\* was submitted later, and its cursor is the one stored.
EarlierRequestAnsweredLast ==
  /\ last.op = "onSearch"
  /\ last.ok
  /\ last.req.q = "a"
  /\ state.lastSearchParams = "b"
  /\ dom.searchStatus.text = "Retrieved 2 instruments."
  /\ state.nextCursor = 1
  /\ dom.rows = <<1, 2>>
  /\ tasks = EmptyBag

\* C9: an add or a remove invoked while nothing is selected puts no request
\* in flight and reports an error on the watchlist status surface.
NullSelectionReported ==
  [][(/\ last'.op \in {"addToWatchlist", "removeWatchlistItem"}
      /\ ~Truthy(state.selectedWatchlistId))
       => /\ tasks' = tasks
          /\ dom'.watchlistStatus.tone = "error"]_vars

\* The silent re-fetch a mutation's handler starts for watchlist wid, and the
\* dashboard request that follows it.
RefetchAfterMutation(wid) ==
  [Request("items") EXCEPT !.auth = Token, !.wid = wid, !.silent = TRUE,
                           !.cont = <<"void loadDashboard">>]

DashboardAfterMutation == [Request("dashboard") EXCEPT !.auth = Token]

SilentFetchKeepsStatus ==
  [][(last'.op = "onItems" /\ last'.ok /\ last'.req.silent)
       => dom'.watchlistStatus = dom.watchlistStatus]_vars

\* C12: when the silent re-fetch that follows a successful add or remove
\* fails, the watchlist status surface keeps the success message of the add
\* or remove.
FailedRefetchKeepsSuccess ==
  [][(/\ last'.op = "onItems"
      /\ ~last'.ok
      /\ last'.req.silent
      /\ last'.req.cont = <<"void loadDashboard">>
      /\ dom.watchlistStatus.tone = "success")
       => dom'.watchlistStatus = dom.watchlistStatus]_vars

\* The status fetch a credential action starts, and the dashboard request
\* that follows it.
RefreshAfterCredentialAction ==
  [Request("kiteStatus") EXCEPT !.auth = Token, !.show = FALSE,
                                !.cont = <<"void loadDashboard">>]

BothLabelsShowTheFact ==
  (/\ last.ok
   /\ \/ last.op = "onKiteStatus"
      \/ last.op = "onDashboard" /\ state.kiteStatus.present
      \/ last.op = "onItems" /\ state.kiteStatus.present)
    => /\ dom.kiteStatus.text = DescribeKiteStatus(state.kiteStatus)
       /\ dom.dashboardKite.text = DescribeKiteStatus(state.kiteStatus)

\* C15 as stated: a credential status fact that is absent or not configured
\* is described as "No credentials stored.".
UnconfiguredDescribedWithoutKite ==
  /\ \A p \in KiteFacts \cup {NoKite} :
       (~p.present \/ ~p.configured)
         => DescribeKiteStatus(p) = "No credentials stored."
  /\ (last.op = "onKiteStatus" /\ ~state.kiteStatus.configured)
       => dom.kiteStatus.text = "No credentials stored."

\* C15, amended: a credential status fact that is absent or not configured
\* is described as "No Kite credentials stored.", whatever its other fields
\* hold, and that is what both labels show after fetching such a fact.
UnconfiguredDescribedAsNone ==
  /\ \A p \in KiteFacts \cup {NoKite} :
       (~p.present \/ ~p.configured)
         => DescribeKiteStatus(p) = "No Kite credentials stored."
  /\ (last.op = "onKiteStatus" /\ ~state.kiteStatus.configured)
       => /\ dom.kiteStatus.text = "No Kite credentials stored."
          /\ dom.dashboardKite.text = "No Kite credentials stored."

\* C15's case: a fact that is not configured but holds a key suffix, a token
\* suffix and an expiry was fetched and described.
UnconfiguredFactWithFieldsShown ==
  /\ last.op = "onKiteStatus"
  /\ state.kiteStatus =
       KiteFact(FALSE, "abcd", "wxyz", "2030-01-01T00:00:00Z")
  /\ dom.kiteStatus.text = "No Kite credentials stored."

\* C16: a configured fact is described as "Kite credentials active", then
\* the key fragment, the token fragment and the expiry fragment in that
\* order, each present exactly when its field is, each preceded by the
\* separator (space, middle dot, space); with only the key suffix "abcd" it
\* is "Kite credentials active . API key ***abcd" in the model's spelling.
ConfiguredDescribedByFragments ==
  /\ \A p \in KiteFacts :
       p.configured
         => DescribeKiteStatus(p) =
              "Kite credentials active"
              \o (IF p.api_key_last4 = "" THEN ""
                  ELSE " " \o MiddleDot \o " API key " \o Bullets \o p.api_key_last4)
              \o (IF p.access_token_last4 = "" THEN ""
                  ELSE " " \o MiddleDot \o " Token " \o Bullets
                       \o p.access_token_last4)
              \o (IF p.valid_till = "" THEN ""
                  ELSE " " \o MiddleDot \o " valid till "
                       \o ToLocaleString(p.valid_till))
  /\ DescribeKiteStatus(KiteFact(TRUE, "abcd", "", ""))
       = "Kite credentials active . API key ***abcd"
  /\ (last.op = "onKiteStatus" /\ state.kiteStatus = KiteFact(TRUE, "abcd", "", ""))
       => /\ dom.kiteStatus.text = "Kite credentials active . API key ***abcd"
          /\ dom.dashboardKite.text = "Kite credentials active . API key ***abcd"

\* C16's case: a configured fact holding all three fields was fetched and
\* both labels show the three fragments in order.
AllFragmentsShown ==
  /\ last.op = "onKiteStatus"
  /\ state.kiteStatus = KiteFact(TRUE, "abcd", "wxyz", "2030-01-01T00:00:00Z")
  /\ dom.kiteStatus.text =
       "Kite credentials active . API key ***abcd . Token ***wxyz . valid till 1/1/2030, 12:00:00 AM"
  /\ dom.dashboardKite.text = dom.kiteStatus.text

\* C17: in every state with a token held, saving an empty set of roles,
\* submitting the import form with no file chosen and submitting the
\* create-watchlist form with an empty or whitespace-only name each report
\* their validation message as an error on their surface and leave the set
\* of requests in flight as it was.
ValidationPrecedesNetwork ==
  RequireToken(W) =>
    /\ LET r == SaveRoles(W, {})
       IN /\ r.tasks = tasks
          /\ r.dom.usersStatus
               = [text |-> "Select at least one role.", tone |-> "error"]
    /\ LET r == ImportSubmit(W, FALSE)
       IN /\ r.tasks = tasks
          /\ r.dom.importStatus
               = [text |-> "Please choose a CSV file.", tone |-> "error"]
    /\ \A raw \in {"", " ", "  "} :
         LET r == CreateWatchlist(W, raw)
         IN /\ r.tasks = tasks
            /\ r.dom.watchlistStatus
                 = [text |-> "Watchlist name is required.", tone |-> "error"]

\* C17's case: with a token held and the directory loaded, all three
\* validations have refused their gesture and nothing is in flight.
AllThreeValidationsRefused ==
  /\ state.token # NoToken
  /\ last.op \in {"saveRoles", "import", "createWatchlist"}
  /\ dom.usersStatus.text = "Select at least one role."
  /\ dom.importStatus.text = "Please choose a CSV file."
  /\ dom.watchlistStatus.text = "Watchlist name is required."
  /\ tasks = EmptyBag

\* The directory request a per-user mutation's handler starts; cont names
\* what the handler does once the reload has returned.
ReloadAfterMutation(cont) ==
  [Request("users") EXCEPT !.auth = Token, !.cont = cont]

\* C18: the response to a successful role or approval PUT starts one request
\* for the whole user directory and a failed one starts nothing; neither
\* response touches the cached user list, which changes only when a
\* directory response arrives, and then to a list the API returned.
MutationReloadsDirectory ==
  [][/\ last'.op \in {"onRoles", "onApprove"}
          => /\ state'.users = state.users
             /\ tasks' = (tasks (-) SetToBag({last'.req}))
                           (+) (IF ~last'.ok THEN EmptyBag
                                ELSE IF last'.op = "onRoles"
                                  THEN SetToBag({ReloadAfterMutation(<<>>)})
                                  ELSE SetToBag({ReloadAfterMutation(
                                                   <<"void loadDashboard">>)}))
     /\ state'.users # state.users => (last'.op = "onUsers" /\ last'.ok)
     /\ (last'.op = "onUsers" /\ last'.ok) => state'.users \in AdminServer.users
    ]_vars

\* C18's case: the reload that followed a successful role PUT has returned a
\* directory of two users, which is now the cached list.
DirectoryReloadedAfterRoles ==
  /\ last.op = "onUsers"
  /\ last.ok
  /\ last.req = ReloadAfterMutation(<<>>)
  /\ dom.usersStatus.text = "Loaded 2 user(s)."
  /\ state.users = <<1, 2>>

\* The import-history request a successful import starts.
HistoryAfterImport ==
  [Request("imports") EXCEPT !.auth = Token, !.cont = <<"void loadDashboard">>]

\* C19: a successful approval change starts the directory reload and a
\* successful import starts the import-history refresh; when that reload or
\* refresh returns, successful or not, a dashboard summary request starts;
\* the mutation's own response leaves the cached summary alone, and a
\* successful summary response makes the cached summary one the API
\* returned.
TotalsRequestedAfterMutation ==
  [][/\ (last'.op = "onApprove" /\ last'.ok)
          => tasks' = (tasks (-) SetToBag({last'.req}))
                        (+) SetToBag({ReloadAfterMutation(<<"void loadDashboard">>)})
     /\ (last'.op = "onImport" /\ last'.ok)
          => tasks' = (tasks (-) SetToBag({last'.req}))
                        (+) SetToBag({HistoryAfterImport})
     /\ last'.op \in {"onApprove", "onImport"}
          => state'.dashboard = state.dashboard
     /\ (/\ last'.op \in {"onUsers", "onImports"}
         /\ last'.req.cont = <<"void loadDashboard">>)
          => tasks' = (tasks (-) SetToBag({last'.req}))
                        (+) SetToBag({DashboardAfterMutation})
     /\ (last'.op = "onDashboard" /\ last'.ok)
          => state'.dashboard \in AdminServer.dashboards]_vars

\* C19's case: the summary request that followed a successful import's
\* history refresh has completed and the cached summary holds its totals.
TotalsShownAfterImport ==
  /\ last.op = "onDashboard"
  /\ last.ok
  /\ last.req = DashboardAfterMutation
  /\ dom.importStatus.text = "Import completed."
  /\ state.dashboard = Dashboard(2, NoKite, "success")

\* C20: once the script has run, exactly one panel carries the active flag
\* and it is the panel recorded as state.activePanel, whichever navigation
\* buttons have been pressed, logged in or not.
ExactlyOnePanelActive ==
  pc = "run" =>
    /\ Cardinality(dom.activePanels) = 1
    /\ dom.activePanels = {state.activePanel}
    /\ state.activePanel \in Panels

\* C20's case: the router has just moved the active flag to a panel other
\* than the default one while the loads of an earlier panel are in flight.
PanelSwitchedDuringLoads ==
  /\ last.op = "setActivePanel"
  /\ state.activePanel = "users"
  /\ dom.activePanels = {"users"}
  /\ \E t \in BagToSet(tasks) : t.kind = "watchlists"

\* The request a panel's load policy starts.
PanelLoad(kind) == [Request(kind) EXCEPT !.auth = Token]

\* C21: in every state with a token held, activating the catalog panel adds
\* one import-history request, and one first-page search request exactly
\* when no result row is rendered; it adds nothing else.
CatalogPanelSearchesWhenEmpty ==
  state.token # NoToken =>
    SetActivePanel(W, "instruments").tasks
      = (tasks (+) SetToBag({PanelLoad("imports")}))
          (+) (IF Len(dom.rows) = 0
                 THEN SetToBag({[PanelLoad("search") EXCEPT
                                   !.q = state.lastSearchParams]})
                 ELSE EmptyBag)

\* C21's case: the catalog panel was activated with rows already rendered;
\* the import-history request is in flight and no search is.
CatalogPanelEnteredWithRows ==
  /\ last.op = "setActivePanel"
  /\ state.activePanel = "instruments"
  /\ Len(dom.rows) > 0
  /\ BagIn(PanelLoad("imports"), tasks)
  /\ \A t \in BagToSet(tasks) : t.kind # "search"

\* C22: the response to the delete-all request empties the rows, nulls the
\* cursor and disables load-more when it is a success and leaves all three
\* as they were when it is a failure; the click itself, confirmed or
\* declined, leaves all three as they were.
ClearAllOnlyOnSuccess ==
  [][/\ (last'.op = "onClearDb" /\ last'.ok)
          => /\ dom'.rows = <<>>
             /\ state'.nextCursor = 0
             /\ dom'.loadMoreDisabled
     /\ (last'.op = "clearDb" \/ (last'.op = "onClearDb" /\ ~last'.ok))
          => /\ dom'.rows = dom.rows
             /\ state'.nextCursor = state.nextCursor
             /\ dom'.loadMoreDisabled = dom.loadMoreDisabled]_vars

\* C22's case: the delete-all request failed with rows rendered and a
\* further page to load; both are still there.
FailedClearAllKeepsRows ==
  /\ last.op = "onClearDb"
  /\ ~last.ok
  /\ dom.searchStatus.tone = "error"
  /\ Len(dom.rows) > 0
  /\ state.nextCursor # 0
  /\ ~dom.loadMoreDisabled

\* C23: when the response to a request is a failure, the handler that
\* awaited it leaves an error-tone message on the status surface of the
\* request's panel.
FailuresReportedAsErrors ==
  [][LET kind == last'.req.kind
         surface ==
           CASE kind = "login" -> "loginStatus"
             [] kind = "dashboard" -> "dashboardStatus"
             [] kind \in {"imports", "import"} -> "importStatus"
             [] kind \in {"search", "clearDb"} -> "searchStatus"
             [] kind \in {"kiteStatus", "kiteSave", "kiteTest", "kiteClear"}
                  -> "kiteStatus"
             [] kind \in {"users", "roles", "approve"} -> "usersStatus"
             [] OTHER -> "watchlistStatus"
     IN ~last'.ok
          => /\ dom'[surface].tone = "error"
             /\ dom'[surface].text # ""]_vars

\* C24: a search, an import, a delete-all, a credential save, test or
\* clear, a create-watchlist, an add or a remove, a role or approval update
\* and a manual refresh of a list, attempted with no token held, each start
\* no request and leave the one login-required message, in the error tone,
\* on the status surface of their panel.
UniformLoginRequired ==
  [][LET surface ==
           CASE last'.op \in {"search", "clearDb"} -> "searchStatus"
             [] last'.op \in {"import", "refreshImports"} -> "importStatus"
             [] last'.op \in {"kiteSave", "kiteTest", "kiteClear"} -> "kiteStatus"
             [] last'.op \in {"saveRoles", "setApproval", "loadUsers"} -> "usersStatus"
             [] last'.op = "dashboardRefresh" -> "dashboardStatus"
             [] OTHER -> "watchlistStatus"
     IN (/\ state.token = NoToken
         /\ last'.op \in {"search", "import", "clearDb", "kiteSave", "kiteTest",
                          "kiteClear", "createWatchlist", "addToWatchlist",
                          "removeWatchlistItem", "saveRoles", "setApproval",
                          "refreshImports", "refreshWatchlists", "loadUsers",
                          "dashboardRefresh"})
          => /\ tasks' = tasks
             /\ dom'[surface] = [text |-> LoginRequired, tone |-> "error"]]_vars

\* C25: state.token changes only when a successful login response arrives;
\* once a token is held one is held after every step; a failed login
\* response leaves the whole state object as it was.
TokenOnlyFromLogin ==
  [][/\ state.token # NoToken => state'.token # NoToken
     /\ state'.token # state.token => (last'.op = "onLogin" /\ last'.ok)
     /\ (last'.op = "onLogin" /\ ~last'.ok) => state' = state]_vars

\* C25's case: a login was refused after an earlier one had succeeded and
\* loaded the directory; the token and the directory are still held.
RefusedLoginKeepsSession ==
  /\ last.op = "onLogin"
  /\ ~last.ok
  /\ dom.loginStatus.tone = "error"
  /\ state.token = Token
  /\ state.users = <<1>>

\* C26: a successful items response leaves the items the API returned;
\* when they are none, the meta line says the watchlist is empty and the
\* status surface holds the no-instruments message in the info tone.
EmptyWatchlistIsNotAnError ==
  [][(last'.op = "onItems" /\ last'.ok)
       => /\ dom'.items \in ItemsOf(last'.req.wid)
          /\ dom'.items = <<>>
               => /\ dom'.watchlistMeta = "This watchlist is empty."
                  /\ dom'.watchlistStatus
                       = [text |-> "No instruments in watchlist yet.",
                          tone |-> "info"]]_vars

\* C26's case: the silent re-fetch that follows a remove (or an add)
\* returned no item.
EmptyViewAfterRefetch ==
  /\ last.op = "onItems"
  /\ last.ok
  /\ last.req = RefetchAfterMutation(Str(1))
  /\ dom.items = <<>>
  /\ dom.watchlistMeta = "This watchlist is empty."
  /\ dom.watchlistStatus.tone = "info"

\* C27: when the collection refresh that follows a successful create
\* returns a collection holding the created watchlist, the selection is the
\* created watchlist's id and a fetch of its items starts.
CreatedWatchlistSelected ==
  [][\A created \in WatchServer("str").created :
       (/\ last'.op = "onWatchlists"
        /\ last'.ok
        /\ last'.req.preserve
        /\ last'.req.cont = <<"void loadDashboard">>
        /\ IsMember(created, state'.watchlists))
         => /\ state'.selectedWatchlistId = created
            /\ \E t \in BagToSet(tasks') : t.kind = "items" /\ t.wid = created]_vars

\* C28: a search submitted with a token held starts one request that
\* carries the stored params and no cursor, and from that step on no row of
\* the previous result set is rendered: not while the request is in flight,
\* and not after it failed.
FreshSearchClearsRows ==
  [][/\ (last'.op = "search" /\ state.token # NoToken)
          => /\ tasks' = tasks (+) SetToBag({[Request("search") EXCEPT
                                                !.auth = Token,
                                                !.q = state'.lastSearchParams]})
             /\ dom'.rows = <<>>
     /\ (last'.op = "onSearch" /\ ~last'.ok /\ ~last'.req.append)
          => dom'.rows = <<>>]_vars

\* C29: when the status fetch that a save or a clear started with
\* showMessage false is answered and the credential status surface still
\* shows the success message of that save or clear, the surface keeps it.
QuietRefreshKeepsMessage ==
  [][(/\ last'.op = "onKiteStatus"
      /\ last'.ok
      /\ ~last'.req.show
      /\ last'.req.cont = <<"void loadDashboard">>
      /\ dom.kiteStatus.text \in {"Kite credentials updated.",
                                  "Kite credentials cleared."})
       => dom'.kiteStatus = dom.kiteStatus]_vars

\* C30: in every state with a token held, activating the overview panel
\* adds exactly one dashboard summary request and activating the users panel
\* adds exactly one user-directory request, whether or not the panel is
\* already active and whether or not its data is already loaded.
ReentryReloads ==
  state.token # NoToken =>
    /\ SetActivePanel(W, "overview").tasks
         = tasks (+) SetToBag({PanelLoad("dashboard")})
    /\ SetActivePanel(W, "users").tasks
         = tasks (+) SetToBag({PanelLoad("users")})

\* C30's case: the users panel was activated with its directory already
\* loaded and a directory request is in flight.
UsersPanelReloaded ==
  /\ last.op = "setActivePanel"
  /\ state.activePanel = "users"
  /\ Len(state.users) > 0
  /\ dom.usersStatus.text = "Loading users..."
  /\ BagIn(PanelLoad("users"), tasks)

\* C31: each of the three shared values has one writer: the selection
\* changes only in steps of the watchlist manager's own handlers (a
\* collection response, a change of the combo box, a create response), the
\* cursor only in steps of the catalog browser's (a search response, a
\* delete-all response), and the credential status fact only when a
\* credential status response arrives.
SingleWriter ==
  [][/\ state'.selectedWatchlistId # state.selectedWatchlistId
          => last'.op \in {"onWatchlists", "selectWatchlist", "onCreate"}
     /\ state'.nextCursor # state.nextCursor
          => last'.op \in {"onSearch", "onClearDb"}
     /\ state'.kiteStatus # state.kiteStatus
          => last'.op = "onKiteStatus"]_vars

\* C32: whenever a watchlist of the collection is selected and no request is
\* in flight, the items view holds items of the selected watchlist.
ItemsViewFollowsSelection ==
  (/\ pc = "run"
   /\ Truthy(state.selectedWatchlistId)
   /\ IsMember(state.selectedWatchlistId, state.watchlists)
   /\ tasks = EmptyBag)
    => dom.items \in ItemsOf(state.selectedWatchlistId)

\* C33: the cursor of every load-more request in flight is one the API
\* returned for a page of the query the request carries.
LoadMoreCursorBelongsToQuery ==
  \A t \in BagToSet(tasks) :
    (t.kind = "search" /\ t.append)
      => \E c \in 0..Len(Catalog[t.q]) : SearchPage(t.q, c).next_cursor = t.cursor

\* C34: no two load-more requests in flight carry the same query and
\* cursor, and no instrument is rendered in two rows.
NoPageAppendedTwice ==
  /\ \A t \in BagToSet(tasks) :
       (t.kind = "search" /\ t.append) => CopiesIn(t, tasks) = 1
  /\ \A i, j \in 1..Len(dom.rows) : dom.rows[i] = dom.rows[j] => i = j

\* C35: once a removal has succeeded and no request is left in flight, the
\* items view does not show the removed instrument, also when the response
\* of a manual refresh sent while the DELETE was unanswered is the last to
\* arrive.
RemovedItemStaysRemoved ==
  (/\ pc = "run"
   /\ tasks = EmptyBag
   /\ last.op = "onItems"
   /\ ~last.req.silent)
    => dom.items = <<>>

\* C36: the response of a search or load-more that was in flight when the
\* delete was sent, arriving right after the delete has succeeded, leaves
\* the rows empty and the cursor null.
ClearedRowsStayEmpty ==
  [][(last.op = "onClearDb" /\ last.ok /\ last'.op = "onSearch")
       => (dom'.rows = <<>> /\ state'.nextCursor = 0)]_vars

\* C37: once a delete-all has succeeded and no request is left in flight,
\* the cached dashboard is the response to the dashboard load sent last,
\* the one the delete sent, which counts no instrument.
DashboardIsLatestResponse ==
  (/\ pc = "run"
   /\ tasks = EmptyBag
   /\ dom.searchStatus.text = "Deleted instruments.")
    => state.dashboard = Dashboard(0, NoKite, "")

\* C38: the silent re-fetch that a successful add or remove sends asks for
\* the items of the watchlist the POST or DELETE itself was sent for.
RefetchTargetsMutatedWatchlist ==
  [][(last'.op \in {"onAdd", "onRemove"} /\ last'.ok)
       => tasks' = (tasks (-) SetToBag({last'.req}))
                     (+) SetToBag({RefetchAfterMutation(last'.req.wid)})]_vars

\* C39: a failed search, load-more, watchlists fetch, watchlist creation,
\* directory load, dashboard load or credential-status fetch leaves the
\* rows, the cursor, the watchlists, the selection, the directory, the
\* dashboard and the credential status as they were.
FailureKeepsCache ==
  [][(/\ ~last'.ok
      /\ last'.op \in {"onSearch", "onWatchlists", "onCreate", "onUsers",
                       "onDashboard", "onKiteStatus"})
       => /\ dom'.rows = dom.rows
          /\ state'.nextCursor = state.nextCursor
          /\ state'.watchlists = state.watchlists
          /\ state'.selectedWatchlistId = state.selectedWatchlistId
          /\ state'.users = state.users
          /\ state'.dashboard = state.dashboard
          /\ state'.kiteStatus = state.kiteStatus]_vars

\* C39's case: a load-more was refused while the first page and its cursor
\* were held, and both are still there.
FailedLoadMoreKeepsPage ==
  /\ last.op = "onSearch"
  /\ ~last.ok
  /\ last.req.append
  /\ dom.rows = <<1, 2>>
  /\ state.nextCursor = 1
  /\ state.dashboard.present

\* C40: when every request is eventually answered, each progress message
\* ("Searching...", "Loading more...", "Loading dashboard...", "Loading
\* users...", "Adding instrument...", "Removing instrument...", "Saving Kite
\* credentials...") is eventually replaced on its surface by a status that
\* is no progress message.
EveryOperationTerminates ==
  LET InProgress == {"Searching...", "Loading more...", "Loading dashboard...",
                     "Loading users...", "Adding instrument...",
                     "Removing instrument...", "Saving Kite credentials...",
                     "Loading watchlist..."}
  IN /\ (dom.searchStatus.text \in InProgress) ~> (dom.searchStatus.text \notin InProgress)
     /\ (dom.dashboardStatus.text \in InProgress)
          ~> (dom.dashboardStatus.text \notin InProgress)
     /\ (dom.usersStatus.text \in InProgress) ~> (dom.usersStatus.text \notin InProgress)
     /\ (dom.watchlistStatus.text \in InProgress)
          ~> (dom.watchlistStatus.text \notin InProgress)
     /\ (dom.kiteStatus.text \in InProgress) ~> (dom.kiteStatus.text \notin InProgress)

\* C40's case: an addition announced itself, was refused, and the progress
\* message has given way to the error.
RefusedAdditionReported ==
  /\ last.op = "onAdd"
  /\ ~last.ok
  /\ dom.watchlistStatus = [text |-> "Unable to add instrument", tone |-> "error"]
  /\ tasks = EmptyBag

====
